---- MODULE Spec2Model ----
(***************************************************************************)
(* The time-step driver of Smilei (main) as a state machine: R processes,  *)
(* each running a team of T OpenMP workers over the PIC loop, with the MPI *)
(* barriers, the OpenMP single / master / barrier constructs, the          *)
(* checkpoint dump, the load balancing and the mirror-domain Maxwell solve.*)
(* Times are counted in half time steps, so that 0.5 * timestep is exact.  *)
(***************************************************************************)
EXTENDS Integers, Sequences, FiniteSets, TLC

\* ------------------------------------------------------------------ bounds
\* largest n_time of an input deck
MaxTime == 2
\* largest number of processes, and of threads of a team
MaxProcs == 2
MaxThreads == 2
\* number of patches of the global patch grid
NPatches == 3

\* params.timestep, in half time steps
timestep == 2

VARIABLES
    params,       \* the parameter record of the run (Params, and the launch)
    run,          \* 1: the first run, 2: the run restarted from a checkpoint
    pc,           \* pc[p][w]: position of thread w of process p
    itime,        \* itime[p][w]: the private step counter of a worker
    time_prim,    \* time_prim[p]
    time_dual,    \* time_dual[p]
    checkpoint,   \* checkpoint[p]: this_run_start_step, exit_asap
    ckptFile,     \* the checkpoints on disk
    patch_count,  \* patch_count[p]: smpi.patch_count as process p knows it
    n_moved,      \* n_moved[p]: simWindow's number of shifts
    windowStep,   \* windowStep[p]: last step whose window operation was applied
    domain,       \* domain[p]: the Cartesian mirror domain of process p
    vecPatches,   \* vecPatches[p]: how the patches of p were created
    mpiCalls,     \* mpiCalls[p]: barriers on MPI_COMM_WORLD entered by p
    ticket,       \* ticket[p][w]: the barrier instance a thread waits in, or 0
    singleTaken,  \* singleTaken[p]: the current single region has its thread
    lbCalls,      \* lbCalls[p]: load_balance calls entered by p
    distHist,     \* the distributions the load balancer agreed on, in order
    log,          \* log[p][w]: what the worker did in its current step
    done,         \* done[p][w]: the steps the worker completed, in order
    dumpLog,      \* dumpLog[p]: <<step, thread>> of every checkpoint.dump call
    lbLog,        \* lbLog[p]: the step of every load_balance call
    advLog,       \* advLog[p]: the step of every advance of time_dual
    snap,         \* the states from which the first run began its steps
    bcParams,     \* Params as PartBoundCond reads it: geometry, EM_BCs
    species,      \* the species: tracked, mass, boundary_conditions
    partBoundCond,\* the dispatchers constructed so far, one per patch
    bcStatus      \* how far the creation of the patches has come

vars == <<params, run, pc, itime, time_prim, time_dual, checkpoint, ckptFile,
          patch_count, vecPatches, n_moved, windowStep, domain, mpiCalls, ticket,
          singleTaken, lbCalls, distHist, log, done, dumpLog, lbLog, advLog,
          snap, bcParams, species, partBoundCond, bcStatus>>

\* ----------------------------------------------------------------- helpers
Procs == 0 .. (params.nprocs - 1)
Threads == 0 .. (params.nthreads - 1)

\* smpi.isMaster(): the process of rank 0
isMaster(p) == p = 0
\* #pragma omp master: the thread of number 0
isMasterThread(w) == w = 0

\* The patch distributions over n processes: every process owns a run of
\* at least one patch, all NPatches patches are owned.
RECURSIVE SumTo(_, _)
SumTo(f, n) == IF n = 0 THEN 0 ELSE f[n - 1] + SumTo(f, n - 1)

Distributions(n) ==
    {f \in [0 .. (n - 1) -> 1 .. NPatches] : SumTo(f, n) = NPatches}

\* Params::printNow(itime)
printNow(s) == s % params.print_every = 0

\* TimeSelection::theTimeIsNow(itime) of load_balancing_time_selection
theTimeIsNow(s) == s % params.load_balancing_every = 0

\* SimWindow::isMoving(time_dual)
isMoving(t) == params.hasWindow /\ t > params.window_time_start

\* The request to stop (a signal, the wall-time watchdog) reaches the
\* checkpoint objects of all processes at the same step: exit_step is the
\* step whose dump sets exit_asap, 0 when the flag is set before the loop
\* starts, -1 when the run is never asked to stop.
\* Checkpoint::dump writes a checkpoint at the steps of its schedule and at
\* the step after which the run is asked to stop
dumpNow(s) ==
    \/ (params.dump_step # 0 /\ s % params.dump_step = 0)
    \/ s = params.exit_step

At(p, w, l) == pc[p][w] = l
Goto(p, w, l) == pc' = [pc EXCEPT ![p][w] = l]
Logged(p, w, e) == log' = [log EXCEPT ![p][w] = Append(@, e)]

\* A worker calls an operation of the step: it is recorded and the worker
\* moves on to the next statement.
Call(p, w, from, to) ==
    /\ At(p, w, from)
    /\ Goto(p, w, to)
    /\ Logged(p, w, from)

\* A statement of the setup or of the cleanup, run by the main thread alone.
Main(p, from, to) ==
    /\ At(p, 0, from)
    /\ Goto(p, 0, to)
    /\ Logged(p, 0, from)

\* MPI_Barrier( MPI_COMM_WORLD ): a thread enters the next barrier instance
\* of its process; the instances of a communicator are matched in the order
\* in which each process enters them.
MPI_Barrier_enter(p, w, from, to) ==
    /\ At(p, w, from)
    /\ mpiCalls' = [mpiCalls EXCEPT ![p] = @ + 1]
    /\ ticket' = [ticket EXCEPT ![p][w] = mpiCalls[p] + 1]
    /\ Goto(p, w, to)
    /\ UNCHANGED log

\* ... and leaves it once every process has entered that instance.
MPI_Barrier_leave(p, w, from, to) ==
    /\ At(p, w, from)
    /\ \A q \in Procs : mpiCalls[q] >= ticket[p][w]
    /\ ticket' = [ticket EXCEPT ![p][w] = 0]
    /\ Goto(p, w, to)
    /\ Logged(p, w, "MPI_Barrier")
    /\ UNCHANGED mpiCalls

\* #pragma omp barrier, and the implicit barrier that ends a single region:
\* the team leaves together once every thread of it waits there.
omp_barrier(p, at, to) ==
    /\ \A w \in Threads : At(p, w, at)
    /\ pc' = [pc EXCEPT ![p] = [w \in Threads |-> to]]
    /\ singleTaken' = [singleTaken EXCEPT ![p] = FALSE]

\* #pragma omp single: the first thread of the team to arrive runs the
\* region, the others go to its closing barrier.
omp_single(p, w, at, body, bar) ==
    /\ At(p, w, at)
    /\ IF singleTaken[p]
         THEN Goto(p, w, bar) /\ UNCHANGED singleTaken
         ELSE Goto(p, w, body) /\ singleTaken' = [singleTaken EXCEPT ![p] = TRUE]

\* what the setup leaves alone
loopVars == <<itime, time_prim, time_dual, checkpoint, ckptFile, patch_count,
              vecPatches, n_moved, windowStep, domain, lbCalls, distHist, done, dumpLog,
              lbLog, advLog, snap>>
\* ... and what the creation of the patches leaves alone
patchVars == <<itime, time_prim, time_dual, checkpoint, ckptFile, patch_count,
               n_moved, windowStep, domain, lbCalls, distHist, done, dumpLog,
               lbLog, advLog, snap>>
mpiVars == <<mpiCalls, ticket>>
bcVars == <<bcParams, species, partBoundCond, bcStatus>>
frame == <<params, run, bcVars>>

\* ---------------------------------------------------------- PartBoundCond
\* The constructor of the particle boundary dispatcher, called for every
\* species of every patch when the patches are created.
Axes == 0 .. 2
Sides == 0 .. 1

\* the policies a deck can name for a face of a species ("none" stands for
\* every string that is none of the other five), and for a face of the fields
Policies == {"reflective", "remove", "stop", "thermalize", "periodic", "none"}
EMPolicies == {"periodic", "silver-muller"}

\* Params: the dimensions of each geometry
Geometries ==
    {[geometry |-> "1d3v", nDim_particle |-> 1, nDim_field |-> 1],
     [geometry |-> "2d3v", nDim_particle |-> 2, nDim_field |-> 2],
     [geometry |-> "3d3v", nDim_particle |-> 3, nDim_field |-> 3],
     [geometry |-> "3drz", nDim_particle |-> 3, nDim_field |-> 2]}

\* the species: tracked or not, of mass 0 (photons) or 1
SpeciesKinds == [tracked : BOOLEAN, mass : 0 .. 1]

\* The boundary tables of the decks: one axis takes every combination of
\* field and species policies on its two sides, the two other axes take one
\* of three plain settings.
FreeAxes == [EM : [Sides -> EMPolicies], bc : [Sides -> Policies]]
PlainAxes ==
    {[EM |-> [sd \in Sides |-> "silver-muller"],
      bc |-> [sd \in Sides |-> "reflective"]],
     [EM |-> [sd \in Sides |-> "silver-muller"],
      bc |-> [sd \in Sides |-> "remove"]],
     [EM |-> [sd \in Sides |-> "periodic"],
      bc |-> [sd \in Sides |-> "periodic"]]}
BoundaryTables ==
    UNION {{[b \in Axes |-> IF b = a THEN f ELSE g[b]] :
               f \in FreeAxes, g \in [Axes -> PlainAxes]} : a \in Axes}

\* the patches whose dispatchers are constructed: where each lies in the
\* global grid (Patch::isXmin() ...)
PatchFaces ==
    <<[isXmin |-> TRUE, isXmax |-> FALSE, isYmin |-> TRUE, isYmax |-> FALSE,
       isZmin |-> TRUE, isZmax |-> FALSE],
      [isXmin |-> FALSE, isXmax |-> FALSE, isYmin |-> FALSE, isYmax |-> FALSE,
       isZmin |-> FALSE, isZmax |-> FALSE],
      [isXmin |-> TRUE, isXmax |-> FALSE, isYmin |-> FALSE, isYmax |-> TRUE,
       isZmin |-> FALSE, isZmax |-> TRUE],
      [isXmin |-> FALSE, isXmax |-> TRUE, isYmin |-> FALSE, isYmax |-> TRUE,
       isZmin |-> FALSE, isZmax |-> TRUE]>>

\* line 18: isRZ( params.geometry == "3drz" )
isRZ(P) == P.geometry = "3drz"

\* lines 80-88: the check of the field against the particle conditions
EMInconsistent(P, S) ==
    /\ ~S.tracked
    /\ \E iDim \in 0 .. (P.nDim_field - 1) :
          \/ /\ P.EM_BCs[iDim][0] = "periodic"
             /\ S.boundary_conditions[iDim][0] # "periodic"
          \/ /\ P.EM_BCs[iDim][1] = "periodic"
             /\ S.boundary_conditions[iDim][1] # "periodic"

\* lines 94-99: the remove function of the species
remove(S) == IF S.mass = 0 THEN "remove_photon" ELSE "remove_particle"

\* a chain of tests without the final ERROR: an unknown policy leaves NULL
Face_lenient(policy, onEdge, rm) ==
    CASE policy = "reflective" -> IF onEdge THEN "reflect_particle" ELSE "NULL"
      [] policy = "remove" -> IF onEdge THEN rm ELSE "NULL"
      [] policy = "stop" -> IF onEdge THEN "stop_particle" ELSE "NULL"
      [] policy = "thermalize" ->
            IF onEdge THEN "thermalize_particle" ELSE "NULL"
      [] OTHER -> "NULL"

\* The chain of tests of one face of x or y (lines 102-119): the policy is
\* looked up first, the place of the patch second.
Face(policy, onEdge, rm) ==
    CASE policy = "reflective" -> IF onEdge THEN "reflect_particle" ELSE "NULL"
      [] policy = "remove" -> IF onEdge THEN rm ELSE "NULL"
      [] policy = "stop" -> IF onEdge THEN "stop_particle" ELSE "NULL"
      [] policy = "thermalize" ->
            IF onEdge THEN "thermalize_particle" ELSE "NULL"
      [] policy = "periodic" -> "NULL"
      [] OTHER -> "ERROR"

\* the chain of tests of one face of z (lines 183-196): it has no test for
\* "thermalize"
FaceZ(policy, onEdge, rm) ==
    CASE policy = "reflective" -> IF onEdge THEN "reflect_particle" ELSE "NULL"
      [] policy = "remove" -> IF onEdge THEN rm ELSE "NULL"
      [] policy = "stop" -> IF onEdge THEN "stop_particle" ELSE "NULL"
      [] policy = "periodic" -> "NULL"
      [] OTHER -> "ERROR"

\* lines 102-119
bc_xmin(S, patch) ==
    Face(S.boundary_conditions[0][0], patch.isXmin, remove(S))
\* an Xmax face that does not ask where the patch lies
bc_xmax_ungated(S, patch) ==
    Face(S.boundary_conditions[0][1], TRUE,
         IF S.mass = 0 THEN "remove_photon" ELSE "remove_particle")

\* lines 122-139
bc_xmax(S, patch) ==
    Face(S.boundary_conditions[0][1], patch.isXmax, remove(S))
\* lines 144-160
bc_ymin(S, patch) ==
    Face(S.boundary_conditions[1][0], patch.isYmin, remove(S))
\* a Ymax face that reads the policy of Ymin
bc_ymax_as_ymin(S, patch) ==
    Face(S.boundary_conditions[1][0], patch.isYmax,
         IF S.mass = 0 THEN "remove_photon" ELSE "remove_particle")

\* lines 163-179
bc_ymax(S, patch) ==
    Face(S.boundary_conditions[1][1], patch.isYmax, remove(S))
\* lines 183-196
bc_zmin(S, patch) ==
    FaceZ(S.boundary_conditions[2][0], patch.isZmin, remove(S))
\* lines 198-211
bc_zmax(S, patch) ==
    FaceZ(S.boundary_conditions[2][1], patch.isZmax, remove(S))
\* an outer radial face on which every other policy means "no handler"
bc_ymax_rz_lenient(S, patch) ==
    IF S.boundary_conditions[1][1] = "remove"
      THEN IF patch.isYmax THEN "remove_particle" ELSE "NULL"
      ELSE "NULL"

\* lines 243-256: the outer radial face of the 3drz geometry
bc_ymax_rz(S, patch) ==
    IF S.boundary_conditions[1][1] = "remove"
      THEN IF patch.isYmax THEN "remove_particle" ELSE "NULL"
      ELSE "ERROR"

\* the six pointers of a dispatcher, all NULL (lines 33-38)
NoHandlers ==
    [bc_xmin |-> "NULL", bc_xmax |-> "NULL", bc_ymin |-> "NULL",
     bc_ymax |-> "NULL", bc_zmin |-> "NULL", bc_zmax |-> "NULL"]

\* PartBoundCond::PartBoundCond( params, species, patch ): the six pointers,
\* and the ERROR that ended the construction ("none" when it succeeded).
\* ERROR ends the program at the first test that fails.
PartBoundCond(P, S, patch) ==
    LET yz == (P.nDim_particle > 1) /\ ~isRZ(P)
        xmin == bc_xmin(S, patch)
        xmax == bc_xmax(S, patch)
        ymin == IF yz THEN bc_ymin(S, patch) ELSE "NULL"
        ymax == IF yz THEN bc_ymax(S, patch)
                ELSE IF isRZ(P) THEN bc_ymax_rz(S, patch) ELSE "NULL"
        zmin == IF yz /\ P.nDim_particle > 2 THEN bc_zmin(S, patch)
                                             ELSE "NULL"
        zmax == IF yz /\ P.nDim_particle > 2 THEN bc_zmax(S, patch)
                                             ELSE "NULL"
        error == IF EMInconsistent(P, S) THEN "periodic EM"
                 ELSE IF xmin = "ERROR" THEN "Xmin"
                 ELSE IF xmax = "ERROR" THEN "Xmax"
                 ELSE IF ymin = "ERROR" THEN "Ymin"
                 ELSE IF ymax = "ERROR" THEN (IF isRZ(P) THEN "Rz" ELSE "Ymax")
                 ELSE IF zmin = "ERROR" THEN "Zmin"
                 ELSE IF zmax = "ERROR" THEN "Zmax"
                 ELSE "none"
    IN  IF error # "none"
          THEN [error |-> error, bc |-> NoHandlers]
          ELSE [error |-> "none",
                bc |-> [bc_xmin |-> xmin, bc_xmax |-> xmax, bc_ymin |-> ymin,
                        bc_ymax |-> ymax, bc_zmin |-> zmin, bc_zmax |-> zmax]]

\* the six faces: the pointer, the axis and the side of its policy, and the
\* test that tells whether the face of the patch is on the global boundary
Faces ==
    {[h |-> "bc_xmin", axis |-> 0, side |-> 0, edge |-> "isXmin"],
     [h |-> "bc_xmax", axis |-> 0, side |-> 1, edge |-> "isXmax"],
     [h |-> "bc_ymin", axis |-> 1, side |-> 0, edge |-> "isYmin"],
     [h |-> "bc_ymax", axis |-> 1, side |-> 1, edge |-> "isYmax"],
     [h |-> "bc_zmin", axis |-> 2, side |-> 0, edge |-> "isZmin"],
     [h |-> "bc_zmax", axis |-> 2, side |-> 1, edge |-> "isZmax"]}

\* PatchesFactory::createVector: the patches of the process and, with each,
\* the dispatcher of its species; the first ERROR ends the construction
newDispatchers(P, S) ==
    LET all == [i \in 1 .. Len(PatchFaces) |->
                   PartBoundCond(P, S, PatchFaces[i])]
        bad == {i \in 1 .. Len(PatchFaces) : all[i].error # "none"}
    IN  IF bad = {} THEN all
        ELSE SubSeq(all, 1, CHOOSE i \in bad : \A k \in bad : i <= k)

\* The boundary conditions of the decks of the driver: one that is
\* accepted, one with a policy that is none of the five, one whose species
\* is not periodic where the fields are, one whose outer radial policy in
\* 3drz is not remove.
BCDecks ==
    {[P |-> [geometry |-> "1d3v", nDim_particle |-> 1, nDim_field |-> 1,
             EM_BCs |-> [a \in Axes |-> [sd \in Sides |-> "periodic"]]],
      S |-> [tracked |-> FALSE, mass |-> 1,
             boundary_conditions |->
                 [a \in Axes |-> [sd \in Sides |-> "periodic"]]]],
     [P |-> [geometry |-> "1d3v", nDim_particle |-> 1, nDim_field |-> 1,
             EM_BCs |-> [a \in Axes |-> [sd \in Sides |-> "silver-muller"]]],
      S |-> [tracked |-> FALSE, mass |-> 1,
             boundary_conditions |->
                 [a \in Axes |-> [sd \in Sides |->
                     IF a = 0 /\ sd = 0 THEN "none" ELSE "reflective"]]]],
     [P |-> [geometry |-> "1d3v", nDim_particle |-> 1, nDim_field |-> 1,
             EM_BCs |-> [a \in Axes |-> [sd \in Sides |-> "periodic"]]],
      S |-> [tracked |-> FALSE, mass |-> 1,
             boundary_conditions |->
                 [a \in Axes |-> [sd \in Sides |-> "reflective"]]]],
     [P |-> [geometry |-> "3drz", nDim_particle |-> 3, nDim_field |-> 2,
             EM_BCs |-> [a \in Axes |-> [sd \in Sides |-> "silver-muller"]]],
      S |-> [tracked |-> FALSE, mass |-> 1,
             boundary_conditions |->
                 [a \in Axes |-> [sd \in Sides |->
                     IF a = 1 /\ sd = 1 THEN "reflective" ELSE "remove"]]]]}

\* PatchesFactory::createVector( params, smpi, it, nm ) in main: the patches
\* are created with their dispatchers; an ERROR of a dispatcher ends the
\* program there.
PatchesFactory_createVector(p, from, to, it, nm) ==
    /\ At(p, 0, from)
    /\ LET b == newDispatchers(bcParams, species)
       IN  /\ partBoundCond' = b
           /\ IF b[Len(b)].error # "none"
                THEN /\ bcStatus' = "ERROR"
                     /\ Goto(p, 0, "ERROR")
                     /\ UNCHANGED <<log, vecPatches>>
                ELSE /\ bcStatus' = "created"
                     /\ Goto(p, 0, to)
                     /\ Logged(p, 0, from)
                     /\ vecPatches' = [vecPatches EXCEPT ![p] =
                                          [created |-> TRUE, itime |-> it,
                                           n_moved |-> nm,
                                           patch_count |-> patch_count[p],
                                           restored |-> FALSE]]
    /\ UNCHANGED <<params, run, bcParams, species, mpiVars, singleTaken,
                   patchVars>>

\* ------------------------------------------------------------------- Init
\* smpi.init: the initial distribution, patches dealt out evenly along the
\* curve, the remainder to the first processes
InitialDistribution(n) ==
    [q \in 0 .. (n - 1) |->
        (NPatches \div n) + (IF q < NPatches % n THEN 1 ELSE 0)]

\* the launches: one process with a team of threads, or several processes
\* of one thread each
Launches ==
    {l \in (1 .. MaxProcs) \X (1 .. MaxThreads) :
        /\ l[1] <= NPatches
        /\ (l[1] = 1 \/ l[2] = 1)}

\* The input decks and launches of the first run. A run of a single worker
\* takes every deck; a run of several workers takes the decks of two steps
\* whose fields are frozen in the first step and not in the second, which
\* stop after the first step or not at all, balance the load at every step
\* (a team of threads: or never) and print the status at the second step.
\* The test mode, the decks whose Poisson solve is off or whose initial
\* charge is null, and the decks whose global_factor is not 1 are run by a
\* single worker for at most one step.
Decks ==
    {d \in [nprocs : 1 .. MaxProcs, nthreads : 1 .. MaxThreads,
            n_time : 0 .. MaxTime,
            time_fields_frozen : {0, timestep + 1, 2 * timestep + 1},
            has_load_balancing : BOOLEAN,
            load_balancing_every : 1 .. 2,
            print_every : 1 .. 2,
            hasWindow : {TRUE},
            window_time_start : {timestep + 1},
            dump_step : {1},
            exit_step : -1 .. (MaxTime - 1),
            solve_poisson : BOOLEAN,
            rho_null : BOOLEAN,
            test_mode : BOOLEAN,
            global_factor : 1 .. 2,
            restart : {FALSE}] :
        /\ <<d.nprocs, d.nthreads>> \in Launches
        /\ (~d.has_load_balancing => d.load_balancing_every = 1)
        /\ (d.global_factor # 1 =>
               /\ d.n_time = 1
               /\ d.solve_poisson /\ ~d.rho_null /\ ~d.test_mode)
        /\ ((d.test_mode \/ ~d.solve_poisson \/ d.rho_null
                \/ d.global_factor # 1) =>
               /\ d.nprocs * d.nthreads = 1
               /\ d.n_time <= 1
               /\ d.time_fields_frozen = 0
               /\ ~d.has_load_balancing
               /\ d.print_every = 1
               /\ d.exit_step = -1)
        /\ (d.test_mode => d.n_time = 0 /\ d.solve_poisson /\ ~d.rho_null)
        /\ (d.nprocs * d.nthreads > 1 =>
               /\ d.n_time = (IF MaxTime < 2 THEN MaxTime ELSE 2)
               /\ d.time_fields_frozen = timestep + 1
               /\ d.exit_step \in {-1, 1}
               /\ (d.nprocs > 1 => d.has_load_balancing)
               /\ d.load_balancing_every = 1
               /\ d.print_every = 2)}

\* the state of the objects main constructs before it initializes the
\* patches (lines 44-123), for deck d and a checkpoint object that starts
\* from step start_step
Constructed(d, start_step) ==
    [pc |-> [p \in 0 .. (d.nprocs - 1) |->
                [w \in 0 .. (d.nthreads - 1) |->
                    IF w = 0 THEN "start" ELSE "idle"]],
     itime |-> [p \in 0 .. (d.nprocs - 1) |->
                   [w \in 0 .. (d.nthreads - 1) |-> 0]],
     time_prim |-> [p \in 0 .. (d.nprocs - 1) |-> 0],
     time_dual |-> [p \in 0 .. (d.nprocs - 1) |-> timestep \div 2],
     checkpoint |-> [p \in 0 .. (d.nprocs - 1) |->
                        [this_run_start_step |-> start_step,
                         exit_asap |-> d.exit_step = 0]],
     patch_count |-> [p \in 0 .. (d.nprocs - 1) |->
                         InitialDistribution(d.nprocs)],
     domain |-> [p \in 0 .. (d.nprocs - 1) |->
                    [built |-> FALSE, epoch |-> 0, cleaned |-> FALSE]],
     vecPatches |-> [p \in 0 .. (d.nprocs - 1) |->
                        [created |-> FALSE, itime |-> 0, n_moved |-> 0,
                         patch_count |-> InitialDistribution(d.nprocs),
                         restored |-> FALSE]],
     zero |-> [p \in 0 .. (d.nprocs - 1) |-> 0],
     false |-> [p \in 0 .. (d.nprocs - 1) |-> FALSE],
     none |-> [p \in 0 .. (d.nprocs - 1) |-> <<>>],
     nothing |-> [p \in 0 .. (d.nprocs - 1) |->
                     [w \in 0 .. (d.nthreads - 1) |-> <<>>]]]

Started ==
    /\ run = 1
    /\ ckptFile = {}
    /\ snap = {}
    /\ LET c == Constructed(params, 0)
       IN  /\ pc = c.pc
           /\ itime = c.itime
           /\ time_prim = c.time_prim
           /\ time_dual = c.time_dual
           /\ checkpoint = c.checkpoint
           /\ patch_count = c.patch_count
           /\ domain = c.domain
           /\ vecPatches = c.vecPatches
           /\ n_moved = c.zero
           /\ windowStep = c.zero
           /\ mpiCalls = c.zero
           /\ ticket = c.itime
           /\ singleTaken = c.false
           /\ lbCalls = c.zero
           /\ distHist = <<>>
           /\ log = c.nothing
           /\ done = c.nothing
           /\ dumpLog = c.none
           /\ lbLog = c.none
           /\ advLog = c.none

\* the boundary conditions of the species as the driver sees them: they
\* are read when the patches are created
IdleBC ==
    /\ bcParams = [geometry |-> "1d3v", nDim_particle |-> 1, nDim_field |-> 1,
                   EM_BCs |-> [a \in 0 .. 2 |-> [sd \in 0 .. 1 |-> "periodic"]]]
    /\ species = [tracked |-> FALSE, mass |-> 1,
                  boundary_conditions |->
                      [a \in 0 .. 2 |-> [sd \in 0 .. 1 |-> "periodic"]]]
    /\ partBoundCond = <<>>
    /\ bcStatus = "idle"

Init ==
    /\ params \in Decks
    /\ Started
    /\ \E b \in BCDecks : bcParams = b.P /\ species = b.S
    /\ partBoundCond = <<>>
    /\ bcStatus = "idle"

\* ------------------------------------------------------------------ setup
\* the checkpoint record a restarted process reads
Restored(p) ==
    CHOOSE c \in ckptFile :
        c.proc = p /\ c.step = checkpoint[p].this_run_start_step

\* line 125: if( smpi.test_mode )
ifTestMode(p) ==
    /\ At(p, 0, "start")
    /\ Goto(p, 0, IF params.test_mode THEN "test_ifRestart" ELSE "ifRestart")
    /\ UNCHANGED <<frame, mpiVars, singleTaken, loopVars, log>>

\* execute_test_mode, line 492: if (params.restart)
test_ifRestart(p) ==
    /\ At(p, 0, "test_ifRestart")
    /\ Goto(p, 0, IF params.restart THEN "test_readPatchDistribution"
                                    ELSE "test_createVector")
    /\ UNCHANGED <<frame, mpiVars, singleTaken, loopVars, log>>

\* lines 493-495: checkpoint.readPatchDistribution( smpi, simWindow );
\* itime = checkpoint.this_run_start_step+1
test_readPatchDistribution(p) ==
    /\ Main(p, "test_readPatchDistribution", "test_createVector")
    /\ patch_count' = [patch_count EXCEPT ![p] = Restored(p).patch_count]
    /\ n_moved' = [n_moved EXCEPT ![p] = Restored(p).n_moved]
    /\ itime' = [itime EXCEPT ![p][0] = checkpoint[p].this_run_start_step + 1]
    /\ UNCHANGED <<frame, mpiVars, singleTaken, time_prim, time_dual,
                   checkpoint, ckptFile, vecPatches, windowStep, domain,
                   lbCalls, distHist, done, dumpLog, lbLog, advLog, snap>>

\* line 498: createVector(params, smpi, openPMD, itime,
\* moving_window_movement); moving_window_movement is 0, or on a restart
\* simWindow->getNmoved() as read at line 495
test_createVector(p) ==
    PatchesFactory_createVector(p, "test_createVector", "test_restartAll",
        itime[p][0], IF params.restart THEN n_moved[p] ELSE 0)

\* lines 500-501: if (params.restart) checkpoint.restartAll
test_restartAll(p) ==
    /\ At(p, 0, "test_restartAll")
    /\ Goto(p, 0, "test_cleanup")
    /\ IF params.restart
         THEN /\ Logged(p, 0, "test_restartAll")
              /\ vecPatches' = [vecPatches EXCEPT ![p].restored = TRUE]
         ELSE UNCHANGED <<log, vecPatches>>
    /\ UNCHANGED <<frame, mpiVars, singleTaken, patchVars>>

\* lines 503-515 and line 127: the test mode cleans up and main returns
test_cleanup(p) ==
    /\ Main(p, "test_cleanup", "return")
    /\ UNCHANGED <<frame, mpiVars, singleTaken, loopVars>>

\* line 131: if (params.restart)
IfRestart(p) ==
    /\ At(p, 0, "ifRestart")
    /\ Goto(p, 0, IF params.restart THEN "readPatchDistribution"
                                    ELSE "createVector")
    /\ UNCHANGED <<frame, mpiVars, singleTaken, loopVars, log>>

\* line 134: checkpoint.readPatchDistribution( &smpi, simWindow )
readPatchDistribution(p) ==
    /\ Main(p, "readPatchDistribution", "createVector_restart")
    /\ patch_count' = [patch_count EXCEPT ![p] = Restored(p).patch_count]
    /\ n_moved' = [n_moved EXCEPT ![p] = Restored(p).n_moved]
    /\ UNCHANGED <<frame, mpiVars, singleTaken, itime, time_prim, time_dual,
                   checkpoint, ckptFile, vecPatches, windowStep, domain,
                   lbCalls, distHist, done, dumpLog, lbLog, advLog, snap>>

\* a restart that creates its patches as a first run does:
\* createVector(params, &smpi, openPMD, 0)
createVector_restart_step0(p) ==
    PatchesFactory_createVector(p, "createVector_restart", "restartAll", 0, 0)

\* line 136: PatchesFactory::createVector(..., this_run_start_step+1, n_moved)
createVector_restart(p) ==
    PatchesFactory_createVector(p, "createVector_restart", "restartAll",
        checkpoint[p].this_run_start_step + 1, n_moved[p])

\* line 138: checkpoint.restartAll
restartAll(p) ==
    /\ Main(p, "restartAll", "restartTimes")
    /\ vecPatches' = [vecPatches EXCEPT ![p].restored = TRUE]
    /\ UNCHANGED <<frame, mpiVars, singleTaken, patchVars>>

\* a restart that sets both times to the primal time of the start step
restartTimes_primal(p) ==
    /\ At(p, 0, "restartTimes")
    /\ Goto(p, 0, "initAllDiags")
    /\ time_prim' = [time_prim EXCEPT ![p] =
                        checkpoint[p].this_run_start_step * timestep]
    /\ time_dual' = [time_dual EXCEPT ![p] =
                        checkpoint[p].this_run_start_step * timestep]
    /\ UNCHANGED <<frame, mpiVars, singleTaken, itime, checkpoint, ckptFile,
                   patch_count, vecPatches, n_moved, windowStep, domain, lbCalls,
                   distHist, done, dumpLog, lbLog, advLog, snap, log>>

\* lines 141-143: the times of a restarted run
restartTimes(p) ==
    /\ At(p, 0, "restartTimes")
    /\ Goto(p, 0, "initAllDiags")
    /\ time_prim' = [time_prim EXCEPT ![p] =
                        checkpoint[p].this_run_start_step * timestep]
    /\ time_dual' = [time_dual EXCEPT ![p] =
          (2 * checkpoint[p].this_run_start_step + 1) * (timestep \div 2)]
    /\ UNCHANGED <<frame, mpiVars, singleTaken, itime, checkpoint, ckptFile,
                   patch_count, vecPatches, n_moved, windowStep, domain, lbCalls,
                   distHist, done, dumpLog, lbLog, advLog, snap, log>>

\* a construction whose ERROR does not end the program
createVector_unchecked(p) ==
    /\ Main(p, "createVector", "computeCharge")
    /\ partBoundCond' = newDispatchers(bcParams, species)
    /\ bcStatus' = IF partBoundCond'[Len(partBoundCond')].error # "none"
                     THEN "ERROR" ELSE "created"
    /\ vecPatches' = [vecPatches EXCEPT ![p] =
                         [created |-> TRUE, itime |-> 0, n_moved |-> 0,
                          patch_count |-> patch_count[p],
                          restored |-> FALSE]]
    /\ UNCHANGED <<params, run, bcParams, species, mpiVars, singleTaken,
                   patchVars>>

\* line 165: PatchesFactory::createVector(params, &smpi, openPMD, 0)
createVector(p) ==
    PatchesFactory_createVector(p, "createVector", "computeCharge", 0, 0)

\* line 169
computeCharge(p) ==
    /\ Main(p, "computeCharge", "sumDensities_charge")
    /\ UNCHANGED <<frame, mpiVars, singleTaken, loopVars>>

\* line 170
sumDensities_charge(p) ==
    /\ Main(p, "sumDensities_charge", "applyAntennas_init")
    /\ UNCHANGED <<frame, mpiVars, singleTaken, loopVars>>

\* line 189
applyAntennas_init(p) ==
    /\ Main(p, "applyAntennas_init", "ifPoisson")
    /\ UNCHANGED <<frame, mpiVars, singleTaken, loopVars>>

\* a test that does not look at the charge density:
\* if (params.solve_poisson == true)
ifPoisson_any_rho(p) ==
    /\ At(p, 0, "ifPoisson")
    /\ Goto(p, 0, IF params.solve_poisson
                    THEN "solvePoisson" ELSE "applyExternalFields")
    /\ UNCHANGED <<frame, mpiVars, singleTaken, loopVars, log>>

\* line 192: if (!vecPatches.isRhoNull(&smpi) && params.solve_poisson == true)
ifPoisson(p) ==
    /\ At(p, 0, "ifPoisson")
    /\ Goto(p, 0, IF ~params.rho_null /\ params.solve_poisson
                    THEN "solvePoisson" ELSE "applyExternalFields")
    /\ UNCHANGED <<frame, mpiVars, singleTaken, loopVars, log>>

\* line 194
solvePoisson(p) ==
    /\ Main(p, "solvePoisson", "applyExternalFields")
    /\ UNCHANGED <<frame, mpiVars, singleTaken, loopVars>>

\* line 198
applyExternalFields(p) ==
    /\ Main(p, "applyExternalFields", "dynamics_init")
    /\ UNCHANGED <<frame, mpiVars, singleTaken, loopVars>>

\* line 200
dynamics_init(p) ==
    /\ Main(p, "dynamics_init", "sumDensities_init")
    /\ UNCHANGED <<frame, mpiVars, singleTaken, loopVars>>

\* line 203
sumDensities_init(p) ==
    /\ Main(p, "sumDensities_init", "finalize_and_sort_parts_init")
    /\ UNCHANGED <<frame, mpiVars, singleTaken, loopVars>>

\* line 205
finalize_and_sort_parts_init(p) ==
    /\ Main(p, "finalize_and_sort_parts_init", "initAllDiags")
    /\ UNCHANGED <<frame, mpiVars, singleTaken, loopVars>>

\* lines 161 and 210: vecPatches.initAllDiags; line 212 follows on a run
\* that is not restarted
initAllDiags(p) ==
    /\ Main(p, "initAllDiags", IF params.restart THEN "domain_build"
                                                 ELSE "runAllDiags_init")
    /\ UNCHANGED <<frame, mpiVars, singleTaken, loopVars>>

\* line 212
runAllDiags_init(p) ==
    /\ Main(p, "runAllDiags_init", "domain_build")
    /\ UNCHANGED <<frame, mpiVars, singleTaken, loopVars>>

\* lines 221-229: Domain domain( params ); domain.build(...) whatever
\* global_factor is. The partition is the one of the distribution of now.
domain_build(p) ==
    /\ Main(p, "domain_build", "identify_additional_patches")
    /\ domain' = [domain EXCEPT ![p] =
                     [built |-> TRUE, epoch |-> Len(lbLog[p]),
                      cleaned |-> FALSE]]
    /\ UNCHANGED <<frame, mpiVars, singleTaken, itime, time_prim, time_dual,
                   checkpoint, ckptFile, patch_count, vecPatches, n_moved, windowStep,
                   lbCalls, distHist, done, dumpLog, lbLog, advLog, snap>>

\* line 268
identify_additional_patches(p) ==
    /\ Main(p, "identify_additional_patches", "identify_missing_patches")
    /\ UNCHANGED <<frame, mpiVars, singleTaken, loopVars>>

\* line 301
identify_missing_patches(p) ==
    /\ Main(p, "identify_missing_patches", "barrier333")
    /\ UNCHANGED <<frame, mpiVars, singleTaken, loopVars>>

\* line 333: MPI_Barrier( MPI_COMM_WORLD )
barrier333(p) ==
    /\ \/ MPI_Barrier_enter(p, 0, "barrier333", "wait333")
       \/ MPI_Barrier_leave(p, 0, "wait333", "fork")
    /\ UNCHANGED <<frame, singleTaken, loopVars>>

\* lines 340-343: the team starts; every thread has its own itime
fork(p) ==
    /\ At(p, 0, "fork")
    /\ pc' = [pc EXCEPT ![p] = [w \in Threads |-> "while"]]
    /\ itime' = [itime EXCEPT ![p] =
          [w \in Threads |-> checkpoint[p].this_run_start_step + 1]]
    /\ UNCHANGED <<frame, mpiVars, singleTaken, time_prim, time_dual,
                   checkpoint, ckptFile, patch_count, vecPatches, n_moved, windowStep,
                   domain, lbCalls, distHist, done, dumpLog, lbLog, advLog,
                   snap, log>>

\* ------------------------------------------------------------ the PIC loop
\* the state from which a process executes the step its threads are at
StepState(p, w) ==
    [proc |-> p, itime |-> itime[p][w], time_prim |-> time_prim[p],
     time_dual |-> time_dual[p], n_moved |-> n_moved[p],
     patch_count |-> patch_count[p]]

\* a loop header that stops one step short: while ( itime < params.n_time ... )
while_lt(p, w) ==
    /\ At(p, w, "while")
    /\ IF itime[p][w] < params.n_time /\ ~checkpoint[p].exit_asap
         THEN /\ Goto(p, w, "single_time")
              /\ log' = [log EXCEPT ![p][w] = <<>>]
         ELSE /\ Goto(p, w, "join")
              /\ UNCHANGED log
    /\ UNCHANGED <<frame, mpiVars, singleTaken, loopVars>>

\* line 344: while ( (itime <= params.n_time) && (!checkpoint.exit_asap) )
while(p, w) ==
    /\ At(p, w, "while")
    /\ IF itime[p][w] <= params.n_time /\ ~checkpoint[p].exit_asap
         THEN /\ Goto(p, w, "single_time")
              /\ log' = [log EXCEPT ![p][w] = <<>>]
         ELSE /\ Goto(p, w, "join")
              /\ UNCHANGED log
    /\ UNCHANGED <<frame, mpiVars, singleTaken, loopVars>>

\* a single region without its closing barrier (#pragma omp single nowait):
\* a thread that does not run the region goes straight on
single_time_nowait(p, w) ==
    /\ omp_single(p, w, "single_time", "time_prim", "applyCollisions")
    /\ snap' = IF run = 1 /\ ~singleTaken[p]
                 THEN snap \cup {StepState(p, w)} ELSE snap
    /\ UNCHANGED <<frame, mpiVars, itime, time_prim, time_dual, checkpoint,
                   ckptFile, patch_count, vecPatches, n_moved, windowStep, domain,
                   lbCalls, distHist, done, dumpLog, lbLog, advLog, log>>

\* line 348: #pragma omp single
single_time(p, w) ==
    /\ omp_single(p, w, "single_time", "time_prim", "barrier_time")
    /\ snap' = IF run = 1 /\ ~singleTaken[p]
                 THEN snap \cup {StepState(p, w)} ELSE snap
    /\ UNCHANGED <<frame, mpiVars, itime, time_prim, time_dual, checkpoint,
                   ckptFile, patch_count, vecPatches, n_moved, windowStep, domain,
                   lbCalls, distHist, done, dumpLog, lbLog, advLog, log>>

\* line 350: time_prim += params.timestep
advance_time_prim(p, w) ==
    /\ At(p, w, "time_prim")
    /\ Goto(p, w, "time_dual")
    /\ time_prim' = [time_prim EXCEPT ![p] = @ + timestep]
    /\ UNCHANGED <<frame, mpiVars, singleTaken, itime, time_dual, checkpoint,
                   ckptFile, patch_count, vecPatches, n_moved, windowStep, domain,
                   lbCalls, distHist, done, dumpLog, lbLog, advLog, snap,
                   log>>

\* line 351: time_dual += params.timestep
advance_time_dual(p, w) ==
    /\ At(p, w, "time_dual")
    /\ Goto(p, w, "barrier_time")
    /\ time_dual' = [time_dual EXCEPT ![p] = @ + timestep]
    /\ advLog' = [advLog EXCEPT ![p] = Append(@, itime[p][w])]
    /\ UNCHANGED <<frame, mpiVars, singleTaken, itime, time_prim, checkpoint,
                   ckptFile, patch_count, vecPatches, n_moved, windowStep, domain,
                   lbCalls, distHist, done, dumpLog, lbLog, snap, log>>

\* line 352: the barrier that ends the single region
barrier_time(p) ==
    /\ omp_barrier(p, "barrier_time", "applyCollisions")
    /\ UNCHANGED <<frame, mpiVars, loopVars, log>>

\* line 354
applyCollisions(p, w) ==
    /\ Call(p, w, "applyCollisions", "dynamics")
    /\ UNCHANGED <<frame, mpiVars, singleTaken, loopVars>>

\* a step that does not project the densities after the push
dynamics_then_antennas(p, w) ==
    /\ Call(p, w, "dynamics", "applyAntennas")
    /\ UNCHANGED <<frame, mpiVars, singleTaken, loopVars>>

\* line 359
dynamics(p, w) ==
    /\ Call(p, w, "dynamics", "sumDensities")
    /\ UNCHANGED <<frame, mpiVars, singleTaken, loopVars>>

\* line 364
sumDensities(p, w) ==
    /\ Call(p, w, "sumDensities", "applyAntennas")
    /\ UNCHANGED <<frame, mpiVars, singleTaken, loopVars>>

\* a step without the barrier of line 383
applyAntennas_no_barrier(p, w) ==
    /\ Call(p, w, "applyAntennas", "ifFrozen")
    /\ UNCHANGED <<frame, mpiVars, singleTaken, loopVars>>

\* line 367
applyAntennas(p, w) ==
    /\ Call(p, w, "applyAntennas", "barrier383")
    /\ UNCHANGED <<frame, mpiVars, singleTaken, loopVars>>

\* line 383: MPI_Barrier( MPI_COMM_WORLD ), by every thread
barrier383(p, w) ==
    /\ \/ MPI_Barrier_enter(p, w, "barrier383", "wait383")
       \/ MPI_Barrier_leave(p, w, "wait383", "ifFrozen")
    /\ UNCHANGED <<frame, singleTaken, loopVars>>

\* the test of line 386 with >= in the place of >
ifFrozen_ge(p, w) ==
    /\ At(p, w, "ifFrozen")
    /\ Goto(p, w, IF time_dual[p] >= params.time_fields_frozen
                    THEN "barrier387" ELSE "finalize_and_sort_parts")
    /\ UNCHANGED <<frame, mpiVars, singleTaken, loopVars, log>>

\* the test of line 386 on a process that is not the master and always
\* solves the fields
ifFrozen_by_rank(p, w) ==
    /\ At(p, w, "ifFrozen")
    /\ Goto(p, w, IF time_dual[p] > params.time_fields_frozen \/ ~isMaster(p)
                    THEN "barrier387" ELSE "finalize_and_sort_parts")
    /\ UNCHANGED <<frame, mpiVars, singleTaken, loopVars, log>>

\* line 386: if( time_dual > params.time_fields_frozen )
ifFrozen(p, w) ==
    /\ At(p, w, "ifFrozen")
    /\ Goto(p, w, IF time_dual[p] > params.time_fields_frozen
                    THEN "barrier387" ELSE "finalize_and_sort_parts")
    /\ UNCHANGED <<frame, mpiVars, singleTaken, loopVars, log>>

\* line 387
barrier387(p, w) ==
    /\ \/ MPI_Barrier_enter(p, w, "barrier387", "wait387")
       \/ MPI_Barrier_leave(p, w, "wait387", "patchedToCartesian")
    /\ UNCHANGED <<frame, singleTaken, loopVars>>

\* a gather that is not followed by the barrier of line 390
patchedToCartesian_no_barrier(p, w) ==
    /\ Call(p, w, "patchedToCartesian", "solveMaxwell")
    /\ UNCHANGED <<frame, mpiVars, singleTaken, loopVars>>

\* line 389: SyncCartesianPatch::patchedToCartesian
patchedToCartesian(p, w) ==
    /\ Call(p, w, "patchedToCartesian", "barrier390")
    /\ UNCHANGED <<frame, mpiVars, singleTaken, loopVars>>

\* line 390
barrier390(p, w) ==
    /\ \/ MPI_Barrier_enter(p, w, "barrier390", "wait390")
       \/ MPI_Barrier_leave(p, w, "wait390", "solveMaxwell")
    /\ UNCHANGED <<frame, singleTaken, loopVars>>

\* line 392: domain.solveMaxwell
solveMaxwell(p, w) ==
    /\ Call(p, w, "solveMaxwell", "cartesianToPatches")
    /\ UNCHANGED <<frame, mpiVars, singleTaken, loopVars>>

\* line 394: SyncCartesianPatch::cartesianToPatches
cartesianToPatches(p, w) ==
    /\ Call(p, w, "cartesianToPatches", "finalize_and_sort_parts")
    /\ UNCHANGED <<frame, mpiVars, singleTaken, loopVars>>

\* line 400
finalize_and_sort_parts(p, w) ==
    /\ Call(p, w, "finalize_and_sort_parts", "finalize_sync_and_bc_fields")
    /\ UNCHANGED <<frame, mpiVars, singleTaken, loopVars>>

\* line 403
finalize_sync_and_bc_fields(p, w) ==
    /\ Call(p, w, "finalize_sync_and_bc_fields", "runAllDiags")
    /\ UNCHANGED <<frame, mpiVars, singleTaken, loopVars>>

\* line 406
runAllDiags(p, w) ==
    /\ Call(p, w, "runAllDiags", "operate")
    /\ UNCHANGED <<frame, mpiVars, singleTaken, loopVars>>

\* line 409: simWindow->operate(vecPatches, &smpi, params, itime, time_dual);
\* the window of the process shifts once in a step in which it moves
operate(p, w) ==
    /\ Call(p, w, "operate", "dump")
    /\ IF windowStep[p] < itime[p][w]
         THEN /\ windowStep' = [windowStep EXCEPT ![p] = itime[p][w]]
              /\ n_moved' = [n_moved EXCEPT ![p] =
                                IF isMoving(time_dual[p]) THEN @ + 1 ELSE @]
         ELSE UNCHANGED <<windowStep, n_moved>>
    /\ UNCHANGED <<frame, mpiVars, singleTaken, itime, time_prim, time_dual,
                   checkpoint, ckptFile, patch_count, vecPatches, domain, lbCalls,
                   distHist, done, dumpLog, lbLog, advLog, snap>>

\* line 415: #pragma omp master
master_dump(p, w) ==
    /\ At(p, w, "dump")
    /\ IF isMasterThread(w)
         THEN /\ Goto(p, w, "dumping")
              /\ Logged(p, w, "dump")
              /\ dumpLog' = [dumpLog EXCEPT ![p] = Append(@, <<itime[p][w], w>>)]
         ELSE /\ Goto(p, w, "barrier_dump")
              /\ UNCHANGED <<log, dumpLog>>
    /\ UNCHANGED <<frame, mpiVars, singleTaken, itime, time_prim, time_dual,
                   checkpoint, ckptFile, patch_count, vecPatches, n_moved, windowStep,
                   domain, lbCalls, distHist, done, lbLog, advLog, snap>>

\* line 416: checkpoint.dump(vecPatches, itime, &smpi, simWindow, params):
\* writes the checkpoint of the step when one is due, and sets exit_asap at
\* the step after which the run has to stop
dump(p, w) ==
    /\ At(p, w, "dumping")
    /\ Goto(p, w, "barrier_dump")
    /\ ckptFile' = IF dumpNow(itime[p][w])
                     THEN ckptFile \cup {[proc |-> p, step |-> itime[p][w],
                                          n_moved |-> n_moved[p],
                                          patch_count |-> patch_count[p]]}
                     ELSE ckptFile
    /\ checkpoint' = [checkpoint EXCEPT ![p].exit_asap =
                         @ \/ itime[p][w] = params.exit_step]
    /\ UNCHANGED <<frame, mpiVars, singleTaken, itime, time_prim, time_dual,
                   patch_count, vecPatches, n_moved, windowStep, domain, lbCalls,
                   distHist, done, dumpLog, lbLog, advLog, snap, log>>

\* a master region that is not followed by a barrier: the threads go on to
\* the load balancing one by one
barrier_dump_absent(p) ==
    /\ \E w \in Threads :
          /\ At(p, w, "barrier_dump")
          /\ Goto(p, w, "ifLoadBalancing")
    /\ UNCHANGED singleTaken
    /\ UNCHANGED <<frame, mpiVars, loopVars, log>>

\* line 417: #pragma omp barrier
barrier_dump(p) ==
    /\ omp_barrier(p, "barrier_dump", "ifLoadBalancing")
    /\ UNCHANGED <<frame, mpiVars, loopVars, log>>

\* a step that is abandoned after the dump once the run is asked to stop
ifLoadBalancing_break(p, w) ==
    /\ At(p, w, "ifLoadBalancing")
    /\ Goto(p, w, IF checkpoint[p].exit_asap THEN "increment"
                  ELSE IF params.has_load_balancing /\ theTimeIsNow(itime[p][w])
                    THEN "single_load_balance" ELSE "print_timestep")
    /\ UNCHANGED <<frame, mpiVars, singleTaken, loopVars, log>>

\* a test that does not ask the schedule: if( params.has_load_balancing )
ifLoadBalancing_unscheduled(p, w) ==
    /\ At(p, w, "ifLoadBalancing")
    /\ Goto(p, w, IF params.has_load_balancing
                    THEN "single_load_balance" ELSE "print_timestep")
    /\ UNCHANGED <<frame, mpiVars, singleTaken, loopVars, log>>

\* lines 421-422: if( params.has_load_balancing ) if( theTimeIsNow(itime) )
ifLoadBalancing(p, w) ==
    /\ At(p, w, "ifLoadBalancing")
    /\ Goto(p, w, IF params.has_load_balancing /\ theTimeIsNow(itime[p][w])
                    THEN "single_load_balance" ELSE "print_timestep")
    /\ UNCHANGED <<frame, mpiVars, singleTaken, loopVars, log>>

\* line 425 without the single construct: every thread calls load_balance
single_load_balance_all(p, w) ==
    /\ At(p, w, "single_load_balance")
    /\ Goto(p, w, "load_balance")
    /\ UNCHANGED <<frame, mpiVars, singleTaken, loopVars, log>>

\* line 424: #pragma omp single
single_load_balance(p, w) ==
    /\ omp_single(p, w, "single_load_balance", "load_balance",
                  "barrier_load_balance")
    /\ UNCHANGED <<frame, mpiVars, loopVars, log>>

\* line 425: vecPatches.load_balance is entered ...
load_balance(p, w) ==
    /\ Call(p, w, "load_balance", "load_balancing")
    /\ lbCalls' = [lbCalls EXCEPT ![p] = @ + 1]
    /\ lbLog' = [lbLog EXCEPT ![p] = Append(@, itime[p][w])]
    /\ UNCHANGED <<frame, mpiVars, singleTaken, itime, time_prim, time_dual,
                   checkpoint, ckptFile, patch_count, vecPatches, n_moved, windowStep,
                   domain, distHist, done, dumpLog, advLog, snap>>

\* ... and returns with the new distribution, the same on every process,
\* once all processes have entered it (it is a collective)
load_balance_return(p, w) ==
    /\ At(p, w, "load_balancing")
    /\ \A q \in Procs : lbCalls[q] >= lbCalls[p]
    /\ Goto(p, w, "barrier_load_balance")
    /\ IF Len(distHist) >= lbCalls[p]
         THEN /\ patch_count' = [patch_count EXCEPT ![p] = distHist[lbCalls[p]]]
              /\ UNCHANGED distHist
         ELSE \E d \in Distributions(params.nprocs) :
                 /\ distHist' = Append(distHist, d)
                 /\ patch_count' = [patch_count EXCEPT ![p] = d]
    /\ UNCHANGED <<frame, mpiVars, singleTaken, itime, time_prim, time_dual,
                   checkpoint, ckptFile, vecPatches, n_moved, windowStep,
                   domain, lbCalls, done, dumpLog, lbLog, advLog, snap, log>>

\* the barrier that ends the single region of line 424
barrier_load_balance(p) ==
    /\ omp_barrier(p, "barrier_load_balance", "print_timestep")
    /\ UNCHANGED <<frame, mpiVars, loopVars, log>>

\* lines 432-433: if ( smpi.isMaster() && params.printNow( itime ) )
print_timestep(p, w) ==
    /\ At(p, w, "print_timestep")
    /\ Goto(p, w, "ifPrintNow")
    /\ IF isMaster(p) /\ printNow(itime[p][w])
         THEN Logged(p, w, "print_timestep")
         ELSE UNCHANGED log
    /\ UNCHANGED <<frame, mpiVars, singleTaken, loopVars>>

\* lines 435-437: if ( params.printNow( itime ) ), #pragma omp master
consolidate(p, w) ==
    /\ At(p, w, "ifPrintNow")
    /\ Goto(p, w, IF printNow(itime[p][w]) THEN "barrier_print"
                                           ELSE "increment")
    /\ IF printNow(itime[p][w]) /\ isMasterThread(w)
         THEN Logged(p, w, "consolidate")
         ELSE UNCHANGED log
    /\ UNCHANGED <<frame, mpiVars, singleTaken, loopVars>>

\* line 438: #pragma omp barrier
barrier_print(p) ==
    /\ omp_barrier(p, "barrier_print", "increment")
    /\ UNCHANGED <<frame, mpiVars, loopVars, log>>

\* line 441: itime++
increment(p, w) ==
    /\ At(p, w, "increment")
    /\ Goto(p, w, "while")
    /\ itime' = [itime EXCEPT ![p][w] = @ + 1]
    /\ done' = [done EXCEPT ![p][w] = Append(@, itime[p][w])]
    /\ UNCHANGED <<frame, mpiVars, singleTaken, time_prim, time_dual,
                   checkpoint, ckptFile, patch_count, vecPatches, n_moved, windowStep,
                   domain, lbCalls, distHist, dumpLog, lbLog, advLog, snap,
                   log>>

\* line 445: the end of the parallel region; the main thread goes on alone
join(p) ==
    /\ \A w \in Threads : At(p, w, "join")
    /\ pc' = [pc EXCEPT ![p] =
                 [w \in Threads |-> IF w = 0 THEN "barrier447" ELSE "idle"]]
    /\ UNCHANGED <<frame, mpiVars, singleTaken, loopVars, log>>

\* ---------------------------------------------------------------- cleanup
\* line 447: smpi.barrier()
barrier447(p) ==
    /\ \/ MPI_Barrier_enter(p, 0, "barrier447", "wait447")
       \/ MPI_Barrier_leave(p, 0, "wait447", "domain_clean")
    /\ UNCHANGED <<frame, singleTaken, loopVars>>

\* lines 470-471: if (global_factor!=1) domain.clean()
domain_clean(p) ==
    /\ At(p, 0, "domain_clean")
    /\ Goto(p, 0, "close")
    /\ domain' = [domain EXCEPT ![p].cleaned = params.global_factor # 1]
    /\ UNCHANGED <<frame, mpiVars, singleTaken, itime, time_prim, time_dual,
                   checkpoint, ckptFile, patch_count, vecPatches, n_moved, windowStep,
                   lbCalls, distHist, done, dumpLog, lbLog, advLog, snap,
                   log>>

\* line 472: vecPatches.close( &smpi )
close(p) ==
    /\ At(p, 0, "close")
    /\ Goto(p, 0, "barrier473")
    /\ UNCHANGED <<frame, mpiVars, singleTaken, loopVars, log>>

\* lines 473-478: smpi.barrier(); ...; return 0
barrier473(p) ==
    /\ \/ MPI_Barrier_enter(p, 0, "barrier473", "wait473")
       \/ MPI_Barrier_leave(p, 0, "wait473", "return")
    /\ UNCHANGED <<frame, singleTaken, loopVars>>

\* -------------------------------------------------------------- a restart
\* The run that ended is started again from one of its checkpoints, by the
\* same launch and from the same deck (a run of a single worker: with any
\* n_time).
Relaunch ==
    /\ run = 1
    /\ \A p \in Procs : At(p, 0, "return")
    /\ \E N \in 1 .. MaxTime,
          nt \in (IF params.nprocs * params.nthreads = 1
                    THEN 0 .. MaxTime ELSE {params.n_time}) :
          /\ \A p \in Procs : \E c \in ckptFile : c.proc = p /\ c.step = N
          /\ \E tm \in BOOLEAN :
                params' = [params EXCEPT !.restart = TRUE, !.n_time = nt,
                                         !.test_mode = tm]
          /\ LET c == Constructed(params, N)
             IN  /\ pc' = c.pc
                 /\ itime' = c.itime
                 /\ time_prim' = c.time_prim
                 /\ time_dual' = c.time_dual
                 /\ checkpoint' = c.checkpoint
                 /\ patch_count' = c.patch_count
                 /\ domain' = c.domain
                 /\ vecPatches' = c.vecPatches
                 /\ n_moved' = c.zero
                 /\ windowStep' = c.zero
                 /\ mpiCalls' = c.zero
                 /\ ticket' = c.itime
                 /\ singleTaken' = c.false
                 /\ lbCalls' = c.zero
                 /\ distHist' = <<>>
                 /\ log' = c.nothing
                 /\ done' = c.nothing
                 /\ dumpLog' = c.none
                 /\ lbLog' = c.none
                 /\ advLog' = c.none
    /\ run' = 2
    /\ partBoundCond' = <<>>
    /\ bcStatus' = "idle"
    /\ UNCHANGED <<ckptFile, snap, bcParams, species>>

Next ==
    \/ \E p \in Procs : \E w \in Threads : while(p, w)
    \/ \E p \in Procs : \E w \in Threads : single_time(p, w)
    \/ \E p \in Procs : \E w \in Threads : advance_time_prim(p, w)
    \/ \E p \in Procs : \E w \in Threads : advance_time_dual(p, w)
    \/ \E p \in Procs : \E w \in Threads : applyCollisions(p, w)
    \/ \E p \in Procs : \E w \in Threads : dynamics(p, w)
    \/ \E p \in Procs : \E w \in Threads : sumDensities(p, w)
    \/ \E p \in Procs : \E w \in Threads : applyAntennas(p, w)
    \/ \E p \in Procs : \E w \in Threads : barrier383(p, w)
    \/ \E p \in Procs : \E w \in Threads : ifFrozen(p, w)
    \/ \E p \in Procs : \E w \in Threads : barrier387(p, w)
    \/ \E p \in Procs : \E w \in Threads : patchedToCartesian(p, w)
    \/ \E p \in Procs : \E w \in Threads : barrier390(p, w)
    \/ \E p \in Procs : \E w \in Threads : solveMaxwell(p, w)
    \/ \E p \in Procs : \E w \in Threads : cartesianToPatches(p, w)
    \/ \E p \in Procs : \E w \in Threads : finalize_and_sort_parts(p, w)
    \/ \E p \in Procs : \E w \in Threads : finalize_sync_and_bc_fields(p, w)
    \/ \E p \in Procs : \E w \in Threads : runAllDiags(p, w)
    \/ \E p \in Procs : \E w \in Threads : operate(p, w)
    \/ \E p \in Procs : \E w \in Threads : master_dump(p, w)
    \/ \E p \in Procs : \E w \in Threads : dump(p, w)
    \/ \E p \in Procs : \E w \in Threads : ifLoadBalancing(p, w)
    \/ \E p \in Procs : \E w \in Threads : single_load_balance(p, w)
    \/ \E p \in Procs : \E w \in Threads : load_balance(p, w)
    \/ \E p \in Procs : \E w \in Threads : load_balance_return(p, w)
    \/ \E p \in Procs : \E w \in Threads : print_timestep(p, w)
    \/ \E p \in Procs : \E w \in Threads : consolidate(p, w)
    \/ \E p \in Procs : \E w \in Threads : increment(p, w)
    \/ \E p \in Procs : barrier_time(p)
    \/ \E p \in Procs : barrier_dump(p)
    \/ \E p \in Procs : barrier_load_balance(p)
    \/ \E p \in Procs : barrier_print(p)
    \/ \E p \in Procs : join(p)
    \/ \E p \in Procs : IfRestart(p)
    \/ \E p \in Procs : readPatchDistribution(p)
    \/ \E p \in Procs : createVector_restart(p)
    \/ \E p \in Procs : restartAll(p)
    \/ \E p \in Procs : restartTimes(p)
    \/ \E p \in Procs : createVector(p)
    \/ \E p \in Procs : computeCharge(p)
    \/ \E p \in Procs : sumDensities_charge(p)
    \/ \E p \in Procs : applyAntennas_init(p)
    \/ \E p \in Procs : ifPoisson(p)
    \/ \E p \in Procs : solvePoisson(p)
    \/ \E p \in Procs : applyExternalFields(p)
    \/ \E p \in Procs : dynamics_init(p)
    \/ \E p \in Procs : sumDensities_init(p)
    \/ \E p \in Procs : finalize_and_sort_parts_init(p)
    \/ \E p \in Procs : initAllDiags(p)
    \/ \E p \in Procs : runAllDiags_init(p)
    \/ \E p \in Procs : domain_build(p)
    \/ \E p \in Procs : identify_additional_patches(p)
    \/ \E p \in Procs : identify_missing_patches(p)
    \/ \E p \in Procs : barrier333(p)
    \/ \E p \in Procs : fork(p)
    \/ \E p \in Procs : barrier447(p)
    \/ \E p \in Procs : domain_clean(p)
    \/ \E p \in Procs : close(p)
    \/ \E p \in Procs : barrier473(p)
    \/ \E p \in Procs : ifTestMode(p)
    \/ \E p \in Procs : test_ifRestart(p)
    \/ \E p \in Procs : test_readPatchDistribution(p)
    \/ \E p \in Procs : test_createVector(p)
    \/ \E p \in Procs : test_restartAll(p)
    \/ \E p \in Procs : test_cleanup(p)
    \/ Relaunch

Spec == Init /\ [][Next]_vars

\* A step of worker w of process p within a run.
WorkerStep(p, w) ==
    /\ p \in Procs
    /\ w \in Threads
    /\ Next
    /\ run' = run
    /\ pc'[p][w] # pc[p][w]

\* Every thread of every process is scheduled: a worker that can take a
\* step does not wait forever. Nothing obliges anyone to restart a run.
Fairness ==
    \A p \in 0 .. (MaxProcs - 1) : \A w \in 0 .. (MaxThreads - 1) :
        WF_vars(WorkerStep(p, w))

SpecFair == Init /\ [][Next]_vars /\ Fairness

\* ------------------------------------- the dispatchers, patch by patch
\* PatchesFactory::createVector creates the next patch, and with it the
\* dispatcher of the species; an ERROR ends the run.
createPatch ==
    /\ bcStatus = "createVector"
    /\ Len(partBoundCond) < Len(PatchFaces)
    /\ LET b == PartBoundCond(bcParams, species,
                              PatchFaces[Len(partBoundCond) + 1])
       IN  /\ partBoundCond' = Append(partBoundCond, b)
           /\ bcStatus' = IF b.error # "none" THEN "ERROR"
                          ELSE IF Len(partBoundCond) + 1 = Len(PatchFaces)
                                 THEN "created" ELSE "createVector"
    /\ UNCHANGED <<bcParams, species, params, run, pc, mpiVars, singleTaken,
                   loopVars, log>>

\* the time loop starts once all patches are there (main, line 340)
startLoop ==
    /\ bcStatus = "created"
    /\ bcStatus' = "loop"
    /\ UNCHANGED <<bcParams, species, partBoundCond, params, run, pc, mpiVars,
                   singleTaken, loopVars, log>>

\* the deck of the driver while the boundary conditions are looked at
SetupDeck ==
    CHOOSE d \in Decks :
        /\ d.nprocs = 1 /\ d.nthreads = 1 /\ d.n_time = 0
        /\ ~d.test_mode /\ d.solve_poisson /\ ~d.rho_null

InitBC ==
    /\ params = SetupDeck
    /\ Started
    /\ \E g \in Geometries : \E t \in BoundaryTables :
          /\ bcParams = [geometry |-> g.geometry,
                         nDim_particle |-> g.nDim_particle,
                         nDim_field |-> g.nDim_field,
                         EM_BCs |-> [a \in Axes |-> t[a].EM]]
          /\ \E k \in SpeciesKinds :
                species = [tracked |-> k.tracked, mass |-> k.mass,
                           boundary_conditions |-> [a \in Axes |-> t[a].bc]]
    /\ partBoundCond = <<>>
    /\ bcStatus = "createVector"

NextBC ==
    \/ createPatch
    \/ startLoop

SpecBC == InitBC /\ [][NextBC]_vars

\* ------------------------------------------ the limits of the local domain
\* Lengths are whole numbers of a common unit.
Max(a, b) == IF a >= b THEN a ELSE b
Min(a, b) == IF a <= b THEN a ELSE b

\* lines 26, 28, 30 (x_min_global, y_min_global and z_min_global are 0)
x_max_global(P) == P.cell_length[0] * P.n_space_global[0]
y_max_global(P) == P.cell_length[1] * P.n_space_global[1]
z_max_global(P) == P.cell_length[2] * P.n_space_global[2]

\* lines 42-51 without the test of the moving window
x_min_no_window(P, patch) ==
    IF P.EM_BCs[0][0] = "periodic"
    THEN patch.DomainLocalMin[0]
    ELSE Max(0, patch.DomainLocalMin[0])

\* lines 42-51
x_min(P, patch) ==
    IF P.EM_BCs[0][0] = "periodic" \/ P.hasWindow
    THEN patch.DomainLocalMin[0]
    ELSE Max(0, patch.DomainLocalMin[0])
x_max(P, patch) ==
    IF P.EM_BCs[0][0] = "periodic" \/ P.hasWindow
    THEN patch.DomainLocalMax[0]
    ELSE Min(x_max_global(P), patch.DomainLocalMax[0])

\* lines 54-62
y_min(P, patch) ==
    IF P.EM_BCs[1][0] = "periodic"
    THEN patch.DomainLocalMin[1]
    ELSE Max(0, patch.DomainLocalMin[1])
y_max(P, patch) ==
    IF P.EM_BCs[1][0] = "periodic"
    THEN patch.DomainLocalMax[1]
    ELSE Min(y_max_global(P), patch.DomainLocalMax[1])

\* lines 65-72
z_min(P, patch) ==
    IF P.EM_BCs[2][0] = "periodic"
    THEN patch.DomainLocalMin[2]
    ELSE Max(0, patch.DomainLocalMin[2])
z_max(P, patch) ==
    IF P.EM_BCs[2][0] = "periodic"
    THEN patch.DomainLocalMax[2]
    ELSE Min(z_max_global(P), patch.DomainLocalMax[2])

\* lines 42-74: the limits the constructor sets; the others stay as they
\* were and are not part of the value
Limits(P, patch) ==
    LET y == P.nDim_particle > 1
        z == y /\ P.nDim_particle > 2 /\ ~isRZ(P)
        set == {"x_min", "x_max"}
                 \cup (IF y THEN {"y_min", "y_max"} ELSE {})
                 \cup (IF z THEN {"z_min", "z_max"} ELSE {})
    IN  [m \in set |->
            CASE m = "x_min" -> x_min(P, patch)
              [] m = "x_max" -> x_max(P, patch)
              [] m = "y_min" -> y_min(P, patch)
              [] m = "y_max" -> y_max(P, patch)
              [] m = "z_min" -> z_min(P, patch)
              [] m = "z_max" -> z_max(P, patch)]

\* The patches a dispatcher is constructed for: along each axis the patch
\* starts before the global domain, at its origin, one cell before its end or
\* one cell beyond it, and is one or two cells long. A patch is on an edge
\* when it reaches it.
LimPatches(P) ==
    LET G == <<x_max_global(P), y_max_global(P), z_max_global(P)>>
        from == [a \in Axes |->
                    {0 - P.cell_length[a], 0, G[a + 1] - P.cell_length[a],
                     G[a + 1] + P.cell_length[a]}]
    IN  {[DomainLocalMin |-> lo,
          DomainLocalMax |-> [a \in Axes |-> lo[a] + n * P.cell_length[a]],
          isXmin |-> lo[0] <= 0,
          isXmax |-> lo[0] + n * P.cell_length[0] >= G[1],
          isYmin |-> lo[1] <= 0,
          isYmax |-> lo[1] + n * P.cell_length[1] >= G[2],
          isZmin |-> lo[2] <= 0,
          isZmax |-> lo[2] + n * P.cell_length[2] >= G[3]] :
            lo \in {f \in [Axes -> UNION {from[a] : a \in Axes}] :
                       \A a \in Axes : f[a] \in from[a]},
            n \in 1 .. 2}

\* PartBoundCond::PartBoundCond for one patch: the limits (lines 42-74), then
\* the pointers (lines 80-257)
newPartBoundCond ==
    /\ bcStatus = "createVector"
    /\ \E patch \in LimPatches(bcParams) :
          LET b == PartBoundCond(bcParams, species, patch)
          IN  /\ partBoundCond' =
                    <<[error |-> b.error, bc |-> b.bc, patch |-> patch,
                       limits |-> Limits(bcParams, patch)]>>
              /\ bcStatus' = IF b.error # "none" THEN "ERROR" ELSE "created"
    /\ UNCHANGED <<bcParams, species, params, run, pc, mpiVars, singleTaken,
                   loopVars, log>>

\* the decks of the limits: the geometry, the field conditions of each side,
\* the moving window, the cells; the species follows the fields
InitLim ==
    /\ params = SetupDeck
    /\ Started
    /\ \E g \in Geometries : \E em \in [Axes -> [Sides -> EMPolicies]] :
       \E w \in BOOLEAN : \E c \in 1 .. 2 : \E n \in 1 .. 2 :
          /\ bcParams = [geometry |-> g.geometry,
                         nDim_particle |-> g.nDim_particle,
                         nDim_field |-> g.nDim_field,
                         EM_BCs |-> em,
                         hasWindow |-> w,
                         cell_length |-> [a \in Axes |-> c],
                         n_space_global |-> [a \in Axes |-> n]]
          /\ species = [tracked |-> FALSE, mass |-> 1,
                        boundary_conditions |->
                            [a \in Axes |-> [sd \in Sides |->
                                IF em[a][sd] = "periodic" THEN "periodic"
                                                          ELSE "remove"]]]
    /\ partBoundCond = <<>>
    /\ bcStatus = "createVector"

NextLim ==
    \/ newPartBoundCond
    \/ startLoop

SpecLim == InitLim /\ [][NextLim]_vars

\* ------------------------------------------- the lists of the mirror domain
\* Lines 268-333 on the four processes of the configuration the rank lists
\* of main were written for.
DDRanks == 0 .. 3
DDDeck == [SetupDeck EXCEPT !.nprocs = 4]

\* A list as Domain::identify_additional_patches or identify_missing_patches
\* leaves it: n entries, the rank v in each. An entry also tells whether
\* main has assigned it.
Computed(n, v) == [i \in 1 .. n |-> [rank |-> v, main |-> FALSE]]

\* for (int idx=lo ; idx<hi ; idx++) l[idx] = v;
Assign(l, lo, hi, v) ==
    [i \in 1 .. Len(l) |->
        IF lo < i /\ i <= hi THEN [rank |-> v, main |-> TRUE] ELSE l[i]]

\* the entries main assigns on each rank (the bounds of the loops of lines
\* 284-299 and 318-332): the lists are at least that long
additional_size(rank) ==
    IF rank = 0 THEN 12 ELSE IF rank = 1 \/ rank = 3 THEN 8 ELSE 0
missing_size(rank) ==
    IF rank = 2 THEN 20 ELSE IF rank = 1 \/ rank = 3 THEN 4 ELSE 0

\* lines 284-299 with rank 3 sending to rank 1
additional_patches_ranks_to_1(rank, l) ==
    IF rank = 0 THEN Assign(Assign(Assign(l, 0, 4, 3), 4, 8, 2), 8, 12, 1)
    ELSE IF rank = 1 THEN Assign(l, 0, 8, 2)
    ELSE IF rank = 3 THEN Assign(l, 0, 8, 1)
    ELSE l

\* lines 284-299: domain.additional_patches_ranks[idx] = ...
additional_patches_ranks(rank, l) ==
    IF rank = 0 THEN Assign(Assign(Assign(l, 0, 4, 3), 4, 8, 2), 8, 12, 1)
    ELSE IF rank = 1 THEN Assign(l, 0, 8, 2)
    ELSE IF rank = 3 THEN Assign(l, 0, 8, 2)
    ELSE l

\* lines 318-332: domain.missing_patches_ranks[idx] = ...
missing_patches_ranks(rank, l) ==
    IF rank = 1 THEN Assign(l, 0, 4, 0)
    ELSE IF rank = 2 THEN Assign(Assign(Assign(l, 0, 4, 0), 4, 12, 1), 12, 20, 3)
    ELSE IF rank = 3 THEN Assign(l, 0, 4, 0)
    ELSE l

\* lines 268-299: identify_additional_patches computes the list, main then
\* assigns its entries
dd_additional_patches(r) ==
    /\ Main(r, "identify_additional_patches", "identify_missing_patches")
    /\ \E extra \in 0 .. 1 :
          domain' = [domain EXCEPT ![r].additional_patches_ranks =
                        additional_patches_ranks(r,
                            Computed(additional_size(r) + extra, r))]
    /\ UNCHANGED <<frame, mpiVars, singleTaken, itime, time_prim, time_dual,
                   checkpoint, ckptFile, patch_count, vecPatches, n_moved,
                   windowStep, lbCalls, distHist, done, dumpLog, lbLog,
                   advLog, snap>>

\* lines 301-332: identify_missing_patches computes the list, main then
\* assigns its entries
dd_missing_patches(r) ==
    /\ Main(r, "identify_missing_patches", "barrier333")
    /\ \E extra \in 0 .. 1 :
          domain' = [domain EXCEPT ![r].missing_patches_ranks =
                        missing_patches_ranks(r,
                            Computed(missing_size(r) + extra, r))]
    /\ UNCHANGED <<frame, mpiVars, singleTaken, itime, time_prim, time_dual,
                   checkpoint, ckptFile, patch_count, vecPatches, n_moved,
                   windowStep, lbCalls, distHist, done, dumpLog, lbLog,
                   advLog, snap>>

\* main after domain.build (line 229) on each of the four processes
InitDD ==
    /\ params = DDDeck
    /\ run = 1
    /\ ckptFile = {}
    /\ snap = {}
    /\ IdleBC
    /\ LET c == Constructed(DDDeck, 0)
       IN  /\ pc = [r \in DDRanks |->
                      [w \in {0} |-> "identify_additional_patches"]]
           /\ domain = [r \in DDRanks |->
                          [built |-> TRUE, epoch |-> 0, cleaned |-> FALSE,
                           additional_patches_ranks |-> <<>>,
                           missing_patches_ranks |-> <<>>]]
           /\ vecPatches = [r \in DDRanks |->
                              [c.vecPatches[r] EXCEPT !.created = TRUE]]
           /\ itime = c.itime
           /\ time_prim = c.time_prim
           /\ time_dual = c.time_dual
           /\ checkpoint = c.checkpoint
           /\ patch_count = c.patch_count
           /\ n_moved = c.zero
           /\ windowStep = c.zero
           /\ mpiCalls = c.zero
           /\ ticket = c.itime
           /\ singleTaken = c.false
           /\ lbCalls = c.zero
           /\ distHist = <<>>
           /\ log = c.nothing
           /\ done = c.nothing
           /\ dumpLog = c.none
           /\ lbLog = c.none
           /\ advLog = c.none

NextDD ==
    \/ \E r \in Procs : dd_additional_patches(r)
    \/ \E r \in Procs : dd_missing_patches(r)
    \/ \E r \in Procs : barrier333(r)

SpecDD == InitDD /\ [][NextDD]_vars

\* ----------------------------------------------------------- observations
Has(l, e) == \E i \in 1 .. Len(l) : l[i] = e
\* the place of the first e in l
Pos(l, e) == CHOOSE i \in 1 .. Len(l) : l[i] = e /\ \A j \in 1 .. (i - 1) : l[j] # e
\* what l holds between its first a and its first b, and after its first a
Between(l, a, b) == SubSeq(l, Pos(l, a) + 1, Pos(l, b) - 1)
After(l, a) == SubSeq(l, Pos(l, a) + 1, Len(l))
\* what follows the first a in l
Follower(l, a) == IF Pos(l, a) < Len(l) THEN l[Pos(l, a) + 1] ELSE "nothing"
Last(l) == l[Len(l)]
Range(l) == {l[i] : i \in 1 .. Len(l)}
\* l is <<first, first + 1, ...>>
Consecutive(l, first) == \A i \in 1 .. Len(l) : l[i] = first + i - 1

MirrorOps == <<"patchedToCartesian", "solveMaxwell", "cartesianToPatches">>
BeforeMirror == <<"applyCollisions", "dynamics", "sumDensities", "applyAntennas">>
AfterMirror == <<"finalize_and_sort_parts", "finalize_sync_and_bc_fields",
                 "runAllDiags", "operate">>
PhaseOrder == BeforeMirror \o MirrorOps \o AfterMirror \o <<"load_balance">>
Rank(e) == Pos(PhaseOrder, e)
\* the phases a worker called in its step, in the order of the calls
Phases(l) == SelectSeq(l, LAMBDA e : e \in Range(PhaseOrder))
PhasesButLB(l) == SelectSeq(Phases(l), LAMBDA e : e # "load_balance")

\* the positions of a worker between the barriers of a step
TimePcs == {"time_prim", "time_dual"}
ToDumpPcs ==
    {"applyCollisions", "dynamics", "sumDensities", "applyAntennas",
     "barrier383", "wait383", "ifFrozen", "barrier387", "wait387",
     "patchedToCartesian", "barrier390", "wait390", "solveMaxwell",
     "cartesianToPatches", "finalize_and_sort_parts",
     "finalize_sync_and_bc_fields", "runAllDiags", "operate", "dump",
     "dumping", "barrier_dump"}
ToLoadBalancePcs ==
    {"ifLoadBalancing", "single_load_balance", "load_balance",
     "load_balancing", "barrier_load_balance"}
ToEndPcs == {"print_timestep", "ifPrintNow", "barrier_print", "increment"}
BodyPcs == ToDumpPcs \cup ToLoadBalancePcs \cup ToEndPcs
LoopPcs == {"while", "single_time", "barrier_time"} \cup TimePcs \cup BodyPcs

\* (s + 1/2) * timestep and s * timestep
StepDual(s) == (2 * s + 1) * (timestep \div 2)
StepPrim(s) == s * timestep
Frozen(s) == StepDual(s) <= params.time_fields_frozen
LoadBalanceDue(s) == params.has_load_balancing /\ theTimeIsNow(s)
StartStep(p) == checkpoint[p].this_run_start_step

\* ----------------------------------------------------------------- claims
\* C1: in every step every worker calls the phases in the fixed order
\* apply_collisions, dynamics, sum_densities, apply_antennas, the three
\* mirror-domain operations (when the fields are not frozen),
\* finalize_and_sort_parts, finalize_sync_and_bc_fields, run_all_diags,
\* operate, load_balance (when scheduled, by the one worker that runs the
\* single region): the calls of a step are in this order, each at most once,
\* and a worker that ends its step has made all of them.
C1_PhaseOrder ==
    \A p \in Procs : \A w \in Threads :
        pc[p][w] \in BodyPcs =>
            LET ph == Phases(log[p][w])
                s == itime[p][w]
            IN  /\ \A i \in 1 .. (Len(ph) - 1) : Rank(ph[i]) < Rank(ph[i + 1])
                /\ Has(ph, "load_balance") => LoadBalanceDue(s)
                /\ At(p, w, "increment") =>
                      /\ PhasesButLB(log[p][w]) =
                            BeforeMirror
                            \o (IF Frozen(s) THEN <<>> ELSE MirrorOps)
                            \o AfterMirror
                      /\ LoadBalanceDue(s) =>
                            lbLog[p] # <<>> /\ Last(lbLog[p]) = s

\* a worker ends a step in which it called every phase, load_balance included
C1_Witness ==
    \E p \in Procs : \E w \in Threads :
        /\ At(p, w, "increment")
        /\ Phases(log[p][w]) = PhaseOrder

\* C2: in every step in which the Maxwell solve runs, every worker executes
\* one global barrier between patchedToCartesian and solveMaxwell and none
\* between solveMaxwell and cartesianToPatches; with one thread per process,
\* no process starts solveMaxwell before all processes have finished the
\* gather of that step.
GatherDone(q, s) ==
    \/ itime[q][0] > s
    \/ /\ itime[q][0] = s
       /\ pc[q][0] \in BodyPcs
       /\ Has(log[q][0], "patchedToCartesian")

C2_BarrierBetweenGatherAndSolveOnly ==
    /\ \A p \in Procs : \A w \in Threads :
          pc[p][w] \in BodyPcs =>
              LET l == log[p][w]
              IN  /\ (At(p, w, "solveMaxwell") \/ Has(l, "solveMaxwell")) =>
                        /\ Has(l, "patchedToCartesian")
                        /\ Follower(l, "patchedToCartesian") = "MPI_Barrier"
                  /\ Has(l, "solveMaxwell") =>
                        Between(l, "patchedToCartesian", "solveMaxwell")
                            = <<"MPI_Barrier">>
                  /\ Has(l, "cartesianToPatches") =>
                        /\ Has(l, "solveMaxwell")
                        /\ Between(l, "solveMaxwell", "cartesianToPatches")
                              = <<>>
    /\ params.nthreads = 1 =>
          \A p \in Procs : \A q \in Procs :
              (/\ pc[p][0] \in BodyPcs
               /\ (At(p, 0, "solveMaxwell") \/ Has(log[p][0], "solveMaxwell")))
                  => GatherDone(q, itime[p][0])

\* a process has scattered its fields back while another process of the
\* same step has not started its solve
C2_Witness ==
    \E p \in Procs : \E q \in Procs :
        /\ pc[p][0] \in BodyPcs
        /\ Has(log[p][0], "cartesianToPatches")
        /\ At(q, 0, "solveMaxwell")
        /\ itime[q][0] = itime[p][0]

\* C2 as stated: a global barrier lies between the gather and the solve, and
\* one between the solve and the scatter
C2_BarrierBetweenAllThree ==
    \A p \in Procs : \A w \in Threads :
        pc[p][w] \in BodyPcs =>
            LET l == log[p][w]
            IN  /\ Has(l, "solveMaxwell") =>
                      Has(Between(l, "patchedToCartesian", "solveMaxwell"),
                          "MPI_Barrier")
                /\ Has(l, "cartesianToPatches") =>
                      Has(Between(l, "solveMaxwell", "cartesianToPatches"),
                          "MPI_Barrier")

\* C3: in every step in which the Maxwell solve runs, every worker executes
\* two global barriers after apply_antennas and before patchedToCartesian
\* (with one thread per process, no process starts the gather before all
\* processes have finished apply_antennas of that step), and no global
\* barrier after cartesianToPatches in that step: finalize_and_sort_parts
\* follows the scatter directly.
AntennasDone(q, s) ==
    \/ itime[q][0] > s
    \/ /\ itime[q][0] = s
       /\ pc[q][0] \in BodyPcs
       /\ Has(log[q][0], "applyAntennas")

C3_BarriersBeforeMirrorOnly ==
    /\ \A p \in Procs : \A w \in Threads :
          pc[p][w] \in BodyPcs =>
              LET l == log[p][w]
              IN  /\ Has(l, "patchedToCartesian") =>
                        Between(l, "applyAntennas", "patchedToCartesian")
                            = <<"MPI_Barrier", "MPI_Barrier">>
                  /\ Has(l, "cartesianToPatches") =>
                        ~Has(After(l, "cartesianToPatches"), "MPI_Barrier")
                  /\ (Has(l, "cartesianToPatches")
                        /\ Has(l, "finalize_and_sort_parts")) =>
                        Follower(l, "cartesianToPatches")
                            = "finalize_and_sort_parts"
    /\ params.nthreads = 1 =>
          \A p \in Procs : \A q \in Procs :
              (/\ pc[p][0] \in BodyPcs
               /\ (At(p, 0, "patchedToCartesian")
                     \/ Has(log[p][0], "patchedToCartesian")))
                  => AntennasDone(q, itime[p][0])

\* a process sorts its particles after the scatter while another process of
\* the same step has not scattered yet
C3_Witness ==
    \E p \in Procs : \E q \in Procs :
        /\ pc[p][0] \in BodyPcs
        /\ Has(log[p][0], "cartesianToPatches")
        /\ Has(log[p][0], "finalize_and_sort_parts")
        /\ At(q, 0, "cartesianToPatches")
        /\ itime[q][0] = itime[p][0]

\* C3 as stated: a global barrier is executed before patchedToCartesian and
\* one after cartesianToPatches, before finalize_and_sort_parts
C3_BarriersAroundMirror ==
    \A p \in Procs : \A w \in Threads :
        pc[p][w] \in BodyPcs =>
            LET l == log[p][w]
            IN  /\ Has(l, "patchedToCartesian") =>
                      Has(Between(l, "applyAntennas", "patchedToCartesian"),
                          "MPI_Barrier")
                /\ (Has(l, "cartesianToPatches")
                      /\ Has(l, "finalize_and_sort_parts")) =>
                      Has(Between(l, "cartesianToPatches",
                                  "finalize_and_sort_parts"), "MPI_Barrier")

\* C4: a worker executes the three mirror-domain operations of a step if and
\* only if the dual time of the step, (s + 1/2) * timestep, is strictly
\* greater than time_fields_frozen, all three or none; every other phase of
\* the step runs either way.
AfterMirrorPcs ==
    {"finalize_and_sort_parts", "finalize_sync_and_bc_fields", "runAllDiags",
     "operate", "dump", "dumping", "barrier_dump"}

C4_FrozenFields ==
    \A p \in Procs : \A w \in Threads :
        LET l == log[p][w]
        IN  /\ pc[p][w] \in AfterMirrorPcs =>
                  /\ time_dual[p] = StepDual(itime[p][w])
                  /\ IF time_dual[p] > params.time_fields_frozen
                       THEN \A e \in Range(MirrorOps) : Has(l, e)
                       ELSE \A e \in Range(MirrorOps) : ~Has(l, e)
            /\ At(p, w, "increment") =>
                  \A e \in Range(BeforeMirror \o AfterMirror) : Has(l, e)

\* a worker has skipped the mirror domain in a step whose dual time equals
\* time_fields_frozen
C4_Witness ==
    \E p \in Procs : \E w \in Threads :
        /\ At(p, w, "finalize_sync_and_bc_fields")
        /\ time_dual[p] = params.time_fields_frozen
        /\ ~Has(log[p][w], "solveMaxwell")

\* C5: exit_asap is read at the loop header only. A worker is inside an
\* iteration while exit_asap is true only in the step whose dump set it, and
\* it ends that step with every remaining phase executed (load_balance and
\* the status print when due); it completes no later step, and none at all
\* when the flag was set before the loop.
InIteration(p, w) == pc[p][w] \in LoopPcs \ {"while"}

C5_CooperativeExit ==
    \A p \in Procs : \A w \in Threads :
        checkpoint[p].exit_asap =>
            LET s == itime[p][w]
                l == log[p][w]
            IN  /\ InIteration(p, w) => s = params.exit_step /\ s >= 1
                /\ \A i \in 1 .. Len(done[p][w]) :
                      done[p][w][i] <= params.exit_step
                /\ At(p, w, "increment") =>
                      /\ LoadBalanceDue(s) =>
                            lbLog[p] # <<>> /\ Last(lbLog[p]) = s
                      /\ (isMaster(p) /\ printNow(s)) =>
                            Has(l, "print_timestep")
                      /\ (isMasterThread(w) /\ printNow(s)) =>
                            Has(l, "consolidate")
                      /\ \A e \in Range(AfterMirror) : Has(l, e)

\* a worker balances the load in a step whose dump has set exit_asap
C5_Witness ==
    \E p \in Procs : \E w \in Threads :
        /\ checkpoint[p].exit_asap
        /\ At(p, w, "load_balancing")
        /\ itime[p][w] < params.n_time

\* C6: a worker executes the steps start_step + 1, start_step + 2, ... in
\* increasing order, each once, none greater than n_time; when it has left
\* the loop with exit_asap not set it has executed all of them, n_time -
\* start_step steps, none when start_step >= n_time. (In test mode main
\* returns at line 127 and the loop is not reached.)
AfterLoopPcs ==
    {"join", "barrier447", "wait447", "domain_clean", "close", "barrier473",
     "wait473", "return"}

C6_StepsOfTheLoop ==
    \A p \in Procs : \A w \in Threads :
        /\ Consecutive(done[p][w], StartStep(p) + 1)
        /\ \A i \in 1 .. Len(done[p][w]) : done[p][w][i] <= params.n_time
        /\ pc[p][w] \in LoopPcs =>
              itime[p][w] = StartStep(p) + 1 + Len(done[p][w])
        /\ (/\ ~params.test_mode
            /\ pc[p][w] \in AfterLoopPcs
            /\ ~checkpoint[p].exit_asap) =>
              Len(done[p][w]) = (IF params.n_time > StartStep(p)
                                   THEN params.n_time - StartStep(p) ELSE 0)

\* a restarted run has executed its steps, up to n_time, and returned
C6_Witness ==
    \E p \in Procs :
        /\ At(p, 0, "return")
        /\ StartStep(p) >= 1
        /\ ~checkpoint[p].exit_asap
        /\ done[p][0] # <<>>
        /\ Last(done[p][0]) = params.n_time

\* C7: the step counter of a worker grows by one per iteration, and while a
\* worker executes the phases of a step no worker of its team is in an
\* earlier step (each has ended the previous step, its load_balance and
\* print regions included) and the time is the time of that step.
C7_NoOverlapOfSteps ==
    \A p \in Procs : \A a \in Threads :
        /\ pc[p][a] \in LoopPcs =>
              itime[p][a] = StartStep(p) + 1 + Len(done[p][a])
        /\ pc[p][a] \in BodyPcs =>
              \A b \in Threads :
                  /\ itime[p][b] >= itime[p][a]
                  /\ itime[p][b] <= itime[p][a] + 1
        /\ pc[p][a] \in ToDumpPcs =>
              /\ \A b \in Threads : itime[p][b] = itime[p][a]
              /\ time_prim[p] = StepPrim(itime[p][a])
              /\ time_dual[p] = StepDual(itime[p][a])

\* a worker of a team of two starts the phases of step 2 after a step 1 in
\* which neither load_balance nor the status print was due
C7_Witness ==
    \E p \in Procs :
        /\ params.nthreads = 2
        /\ At(p, 1, "dynamics")
        /\ itime[p][1] = 2
        /\ ~LoadBalanceDue(1)
        /\ ~printNow(1)
        /\ pc[p][0] \in {"applyCollisions", "dynamics"}

\* C8: in each step of a process the time pair is advanced once, dump is
\* called once, by the master thread, and load_balance (when due) once;
\* while a worker is in one of these regions its teammates are in the same
\* step and have not gone past the barrier that ends the region, so that
\* nobody reads the checkpoint object during the dump.
C8_OncePerStep ==
    \A p \in Procs :
        /\ Consecutive(advLog[p], StartStep(p) + 1)
        /\ \A i \in 1 .. Len(dumpLog[p]) :
              dumpLog[p][i] = <<StartStep(p) + i, 0>>
        /\ \A i \in 1 .. Len(lbLog[p]) :
              /\ LoadBalanceDue(lbLog[p][i])
              /\ i > 1 => lbLog[p][i - 1] < lbLog[p][i]
        /\ \A a \in Threads :
              /\ pc[p][a] \in ToDumpPcs =>
                    /\ Len(advLog[p]) = Len(done[p][a]) + 1
                    /\ time_prim[p] = StepPrim(itime[p][a])
                    /\ time_dual[p] = StepDual(itime[p][a])
              /\ pc[p][a] \in (ToLoadBalancePcs \cup ToEndPcs) =>
                    Len(dumpLog[p]) = Len(done[p][a]) + 1
              /\ (pc[p][a] \in ToEndPcs /\ LoadBalanceDue(itime[p][a])) =>
                    lbLog[p] # <<>> /\ Last(lbLog[p]) = itime[p][a]
              /\ \A b \in Threads \ {a} :
                    /\ pc[p][a] \in TimePcs =>
                          /\ pc[p][b] \in {"while", "single_time",
                                           "barrier_time"} \cup ToLoadBalancePcs
                                          \cup ToEndPcs
                          /\ pc[p][b] \in BodyPcs =>
                                itime[p][b] < itime[p][a]
                    /\ pc[p][a] = "dumping" =>
                          /\ pc[p][b] \in ToDumpPcs \ {"dumping"}
                          /\ itime[p][b] = itime[p][a]
                    /\ pc[p][a] \in {"load_balance", "load_balancing"} =>
                          /\ pc[p][b] \in ToLoadBalancePcs
                                \ {"load_balance", "load_balancing"}
                          /\ itime[p][b] = itime[p][a]

\* in a team of two, the thread that is not the master balances the load
\* while the master waits at the end of the single region
C8_Witness ==
    \E p \in Procs :
        /\ params.nthreads = 2
        /\ At(p, 1, "load_balancing")
        /\ At(p, 0, "barrier_load_balance")
        /\ Len(dumpLog[p]) = 1
        /\ Len(advLog[p]) = 1

\* C9: a process of a run restarted from the checkpoint of step N starts
\* step N + 1 from the state (step counter, time_prim, time_dual, n_moved,
\* patch distribution) from which it started step N + 1 in the run that
\* wrote the checkpoint.
C9_RestartEquivalence ==
    \A p \in Procs : \A w \in Threads :
        (/\ run = 2
         /\ At(p, w, "time_prim")
         /\ itime[p][w] = StartStep(p) + 1) =>
            \A s \in snap :
                (s.proc = p /\ s.itime = itime[p][w]) => s = StepState(p, w)

\* C10: the gather, the solve and the scatter run on a mirror domain built
\* after the latest load_balance of the process.
C10_MirrorDomainRebuilt ==
    \A p \in Procs : \A w \in Threads :
        pc[p][w] \in Range(MirrorOps) =>
            /\ domain[p].built
            /\ domain[p].epoch = Len(lbLog[p])

\* ------------------------------------------- properties of PartBoundCond
\* the dispatchers constructed so far, and what is read off dispatcher i
Dispatchers == 1 .. Len(partBoundCond)
Handler(i, f) == partBoundCond[i].bc[f.h]
OnEdge(i, f) == PatchFaces[i][f.edge]
Policy(f) == species.boundary_conditions[f.axis][f.side]
Cartesian == bcParams.geometry \in {"1d3v", "2d3v", "3d3v"}
FivePolicies == {"reflective", "remove", "stop", "thermalize", "periodic"}
AllPatches == 1 .. Len(PatchFaces)

\* the species with the policy of one face replaced
WithPolicy(a, sd, pol) ==
    [species EXCEPT !.boundary_conditions[a][sd] = pol]

\* the rule on periodic field boundaries as the specification words it:
\* a periodic field boundary on either side of an axis asks for periodic
\* particle boundaries on both sides of that axis
PeriodicRuleBroken ==
    /\ ~species.tracked
    /\ \E a \in 0 .. (bcParams.nDim_field - 1) :
          /\ \E sd \in Sides : bcParams.EM_BCs[a][sd] = "periodic"
          /\ \E sd \in Sides : species.boundary_conditions[a][sd] # "periodic"

\* C11: for a species that is not tracked, when the field boundary on the min
\* or on the max side of an axis below nDim_field is periodic and the species
\* boundary of that axis is not periodic on both sides, the construction of
\* the dispatcher ends in an ERROR, on every patch.
C11_ValidityRule ==
    PeriodicRuleBroken =>
        /\ \A i \in Dispatchers : partBoundCond[i].error # "none"
        /\ \A k \in AllPatches :
              PartBoundCond(bcParams, species, PatchFaces[k]).error # "none"

\* C12: in the Cartesian geometries, when every policy of the axes below
\* nDim_particle is one of the five policies and the rule on periodic field
\* boundaries is met, the construction of the dispatcher succeeds.
C12_FivePoliciesAccepted ==
    (/\ Cartesian
     /\ ~PeriodicRuleBroken
     /\ \A a \in 0 .. (bcParams.nDim_particle - 1) : \A sd \in Sides :
           species.boundary_conditions[a][sd] \in FivePolicies) =>
        \A i \in Dispatchers : partBoundCond[i].error = "none"

\* C13: in the Cartesian geometries, when the policy of a side of an axis
\* below nDim_particle is none of the recognised policies, the construction
\* ends in an ERROR on every patch, on the global boundary or not, no pointer
\* is set and the loop is not started; and the policies of the axes at or
\* above nDim_particle have no effect on what the constructor does.
C13_UnknownPolicyFatal ==
    Cartesian =>
        /\ (\E a \in 0 .. (bcParams.nDim_particle - 1) : \E sd \in Sides :
                species.boundary_conditions[a][sd] \notin FivePolicies) =>
              /\ \A k \in AllPatches :
                    PartBoundCond(bcParams, species, PatchFaces[k]).error
                        # "none"
              /\ \A i \in Dispatchers :
                    /\ partBoundCond[i].error # "none"
                    /\ partBoundCond[i].bc = NoHandlers
              /\ bcStatus \in {"createVector", "ERROR"}
              /\ Len(partBoundCond) <= 1
        /\ \A i \in Dispatchers :
              \A a \in bcParams.nDim_particle .. 2 : \A sd \in Sides :
                 \A pol \in Policies :
                    PartBoundCond(bcParams, WithPolicy(a, sd, pol),
                                  PatchFaces[i]) = partBoundCond[i]

C13_Witness ==
    /\ bcParams.geometry = "2d3v"
    /\ species.boundary_conditions[1][1] = "none"
    /\ species.boundary_conditions[2][0] = "remove"
    /\ bcStatus = "ERROR"
    /\ Len(partBoundCond) = 1
    /\ ~PatchFaces[1].isYmax
    /\ partBoundCond[1].error = "Ymax"

\* C14: a face of a patch has a handler only if the face is on the global
\* boundary, its axis is below nDim_particle and its policy is not periodic;
\* every interior face and every periodic face is left NULL.
C14_GlobalBoundaryGating ==
    \A i \in Dispatchers : \A f \in Faces :
        /\ Handler(i, f) # "NULL" =>
              /\ OnEdge(i, f)
              /\ f.axis < bcParams.nDim_particle
              /\ Policy(f) # "periodic"
        /\ (~OnEdge(i, f) \/ Policy(f) = "periodic") => Handler(i, f) = "NULL"

C14_Witness ==
    /\ bcStatus = "loop"
    /\ bcParams.geometry = "3d3v"
    /\ species.boundary_conditions[0][0] = "stop"
    /\ species.boundary_conditions[0][1] = "stop"
    /\ partBoundCond[3].bc.bc_xmin = "stop_particle"
    /\ partBoundCond[3].bc.bc_xmax = "NULL"
    /\ partBoundCond[2].bc = NoHandlers
    /\ partBoundCond[4].bc.bc_xmax = "stop_particle"
    /\ partBoundCond[4].bc.bc_zmax # "NULL"

\* C15: in every geometry, on every face whose policy is remove and which
\* has a handler, the handler is remove_photon for a species of mass zero
\* and remove_particle for any other species.
C15_PhotonRemove ==
    \A i \in Dispatchers : \A f \in Faces :
        (Policy(f) = "remove" /\ Handler(i, f) # "NULL") =>
            Handler(i, f) = IF species.mass = 0 THEN "remove_photon"
                                                ELSE "remove_particle"

\* the handler a policy names
Named(policy) ==
    CASE policy = "reflective" -> "reflect_particle"
      [] policy = "stop" -> "stop_particle"
      [] policy = "thermalize" -> "thermalize_particle"
      [] policy = "remove" ->
            IF species.mass = 0 THEN "remove_photon" ELSE "remove_particle"
      [] OTHER -> "NULL"

\* C16: when the construction succeeds in a Cartesian geometry, the handler
\* of every face on the global boundary of an axis below nDim_particle is
\* the one its policy names, and it stays the same whatever accepted policy
\* any other face is given.
C16_PolicyDispatch ==
    Cartesian =>
        \A i \in Dispatchers :
            partBoundCond[i].error = "none" =>
                \A f \in Faces :
                    (OnEdge(i, f) /\ f.axis < bcParams.nDim_particle) =>
                        /\ Handler(i, f) = Named(Policy(f))
                        /\ (bcStatus = "loop" /\ i = Len(partBoundCond)) =>
                             \A g \in Faces \ {f} : \A pol \in Policies :
                                LET b == PartBoundCond(bcParams,
                                            WithPolicy(g.axis, g.side, pol),
                                            PatchFaces[i])
                                IN  b.error = "none" =>
                                        b.bc[f.h] = Handler(i, f)

C16_Witness ==
    /\ bcStatus = "loop"
    /\ bcParams.geometry = "2d3v"
    /\ species.boundary_conditions[1][0] = "thermalize"
    /\ species.boundary_conditions[1][1] = "stop"
    /\ species.mass = 0
    /\ species.boundary_conditions[0][0] = "remove"
    /\ partBoundCond[1].bc.bc_ymin = "thermalize_particle"
    /\ partBoundCond[1].bc.bc_xmin = "remove_photon"
    /\ partBoundCond[4].bc.bc_ymax = "stop_particle"

FirstRunOps ==
    {"createVector", "computeCharge", "sumDensities_charge",
     "applyAntennas_init", "ifPoisson", "solvePoisson", "applyExternalFields",
     "dynamics_init", "sumDensities_init", "finalize_and_sort_parts_init",
     "runAllDiags_init"}

\* a precedes b in l when both are there
Precedes(l, a, b) == (Has(l, a) /\ Has(l, b)) => Pos(l, a) < Pos(l, b)

\* C18: on a restart, in normal and in test mode, readPatchDistribution has
\* read the patch distribution and n_moved of the checkpoint before the
\* patches are created; createVector creates them for step start_step + 1
\* with the restored n_moved and distribution; restartAll runs after
\* createVector; and none of the statements of a first run (computeCharge,
\* solvePoisson, the dynamics of step 0, ...) is executed.
C18_RestartSequencing ==
    params.restart =>
        \A p \in Procs :
            LET l == log[p][0]
                c == Restored(p)
            IN  /\ pc[p][0] \in {"readPatchDistribution",
                                 "test_readPatchDistribution"} =>
                      ~vecPatches[p].created
                /\ pc[p][0] \in {"createVector_restart"} =>
                      /\ ~vecPatches[p].created
                      /\ Has(l, "readPatchDistribution")
                      /\ n_moved[p] = c.n_moved
                      /\ patch_count[p] = c.patch_count
                /\ (params.test_mode /\ pc[p][0] = "test_createVector") =>
                      /\ ~vecPatches[p].created
                      /\ Has(l, "test_readPatchDistribution")
                      /\ n_moved[p] = c.n_moved
                      /\ patch_count[p] = c.patch_count
                /\ vecPatches[p].created =>
                      /\ vecPatches[p].itime = StartStep(p) + 1
                      /\ vecPatches[p].n_moved = c.n_moved
                      /\ vecPatches[p].patch_count = c.patch_count
                /\ pc[p][0] \in {"restartAll", "test_restartAll"} =>
                      vecPatches[p].created /\ ~vecPatches[p].restored
                /\ vecPatches[p].restored => vecPatches[p].created
                /\ Precedes(l, "readPatchDistribution", "createVector_restart")
                /\ Precedes(l, "createVector_restart", "restartAll")
                /\ Precedes(l, "test_readPatchDistribution",
                            "test_createVector")
                /\ Precedes(l, "test_createVector", "test_restartAll")
                /\ Has(l, "restartAll") => Has(l, "createVector_restart")
                /\ Has(l, "test_restartAll") => Has(l, "test_createVector")
                /\ pc[p][0] \notin FirstRunOps
                /\ \A w \in Threads : Range(log[p][w]) \cap FirstRunOps = {}

C18_Witness ==
    /\ params.restart
    /\ ~params.test_mode
    /\ \E p \in Procs :
          /\ At(p, 0, "restartTimes")
          /\ vecPatches[p].restored
          /\ vecPatches[p].n_moved >= 1
          /\ vecPatches[p].itime >= 2

\* C19: the master dumps after the operate of the step and before any
\* thread of its process reaches the load balancing of the step; the
\* checkpoint of step s holds the n_moved reached by the window shift of
\* step s and the patch distribution from before the load_balance of step s.
C19_DumpBetweenWindowAndLoadBalance ==
    \A p \in Procs :
        /\ \A w \in Threads :
              /\ Precedes(log[p][w], "operate", "dump")
              /\ Has(log[p][w], "dump") => Has(log[p][w], "operate")
              /\ Precedes(log[p][w], "dump", "load_balance")
              /\ pc[p][w] \in ToLoadBalancePcs =>
                    /\ Len(dumpLog[p]) > 0
                    /\ Last(dumpLog[p]) = <<itime[p][w], 0>>
                    /\ pc[p][0] \notin ToDumpPcs
                    /\ dumpNow(itime[p][w]) =>
                          \E c \in ckptFile :
                              c.proc = p /\ c.step = itime[p][w]
        /\ pc[p][0] \in {"dumping", "barrier_dump"} =>
              /\ windowStep[p] = itime[p][0]
              /\ itime[p][0] \notin Range(lbLog[p])
              /\ \A w \in Threads : pc[p][w] \notin ToLoadBalancePcs
        /\ (pc[p][0] = "barrier_dump" /\ dumpNow(itime[p][0])) =>
              [proc |-> p, step |-> itime[p][0], n_moved |-> n_moved[p],
               patch_count |-> patch_count[p]] \in ckptFile

C19_Witness ==
    \E p \in Procs :
        /\ pc[p][0] = "barrier_dump"
        /\ itime[p][0] = 2
        /\ dumpNow(2)
        /\ LoadBalanceDue(2)
        /\ n_moved[p] >= 1
        /\ Len(lbLog[p]) >= 1
        /\ patch_count[p] # InitialDistribution(params.nprocs)
        /\ \E c \in ckptFile : c.proc = p /\ c.step = 2 /\ c.n_moved >= 1

\* C20: solvePoisson is called at most once, in the setup of a run that is
\* not restarted, with solve_poisson on and a charge density that is not
\* null, after computeCharge and sumDensities and before the first
\* dynamics; no worker calls it inside the loop.
C20_PoissonOnlyAtInit ==
    \A p \in Procs :
        LET l == log[p][0]
        IN  /\ Len(SelectSeq(l, LAMBDA e : e = "solvePoisson")) <= 1
            /\ (Has(l, "solvePoisson") \/ At(p, 0, "solvePoisson")) =>
                  /\ ~params.restart
                  /\ run = 1
                  /\ params.solve_poisson
                  /\ ~params.rho_null
                  /\ Has(l, "computeCharge")
                  /\ Has(l, "sumDensities_charge")
                  /\ Pos(l, "computeCharge") < Pos(l, "sumDensities_charge")
            /\ At(p, 0, "solvePoisson") =>
                  /\ ~Has(l, "solvePoisson")
                  /\ ~Has(l, "dynamics_init")
            /\ Precedes(l, "sumDensities_charge", "solvePoisson")
            /\ Precedes(l, "solvePoisson", "dynamics_init")
            /\ \A w \in Threads :
                  /\ w # 0 => ~Has(log[p][w], "solvePoisson")
                  /\ InIteration(p, w) =>
                        /\ ~Has(log[p][w], "solvePoisson")
                        /\ pc[p][w] # "solvePoisson"

C20_Witness ==
    \E p \in Procs :
        /\ Has(log[p][0], "solvePoisson")
        /\ Has(log[p][0], "dynamics_init")
        /\ At(p, 0, "while")

\* ------------------------------------- load balancing, times, mirror domain
\* C21: load_balance is called at step s exactly when has_load_balancing is
\* on and theTimeIsNow(s) holds: every call is at such a step of the loop,
\* every such step a worker has gone through has its call, and there is no
\* call before the loop; after the loop the calls are those of the steps done.
C21_LoadBalanceBySchedule ==
    \A p \in Procs :
        /\ \A i \in 1 .. Len(lbLog[p]) :
              /\ LoadBalanceDue(lbLog[p][i])
              /\ lbLog[p][i] > StartStep(p)
              /\ lbLog[p][i] <= params.n_time
        /\ \A w \in Threads :
              /\ \A i \in 1 .. Len(done[p][w]) :
                    LoadBalanceDue(done[p][w][i]) <=>
                        done[p][w][i] \in Range(lbLog[p])
              /\ pc[p][w] \in ToEndPcs =>
                    (LoadBalanceDue(itime[p][w]) <=>
                        itime[p][w] \in Range(lbLog[p]))
              /\ pc[p][w] \in {"single_load_balance", "load_balance",
                               "load_balancing", "barrier_load_balance"} =>
                    LoadBalanceDue(itime[p][w])
        /\ pc[p][0] \notin (LoopPcs \cup AfterLoopPcs) => lbLog[p] = <<>>
        /\ pc[p][0] \in AfterLoopPcs =>
              Range(lbLog[p]) =
                  {s \in Range(done[p][0]) : LoadBalanceDue(s)}

C21_Witness ==
    \E p \in Procs :
        /\ pc[p][0] = "return"
        /\ params.has_load_balancing
        /\ params.load_balancing_every = 2
        /\ done[p][0] = <<1, 2>>
        /\ lbLog[p] = <<2>>

\* the statements of a step that are given time_dual (lines 361-433)
ReadsTimes(p, w) ==
    \/ pc[p][w] \in {"dynamics", "sumDensities", "applyAntennas", "ifFrozen",
                     "solveMaxwell", "finalize_and_sort_parts",
                     "finalize_sync_and_bc_fields", "runAllDiags", "operate",
                     "load_balance"}
    \/ /\ pc[p][w] = "print_timestep"
       /\ isMaster(p)
       /\ printNow(itime[p][w])

\* C24 as the specification words it: whenever a worker is at the loop
\* header, with s the step it completed last, time_prim = s * timestep and
\* time_dual = (s + 1/2) * timestep.
C24_TimePairAtEveryHeader ==
    \A p \in Procs : \A w \in Threads :
        At(p, w, "while") =>
            /\ time_prim[p] = StepPrim(itime[p][w] - 1)
            /\ time_dual[p] = StepDual(itime[p][w] - 1)

\* C24: with s the last completed step (start_step before the first
\* iteration), time_prim = s * timestep and time_dual = (s + 1/2) * timestep
\* when the main thread is about to start the team, whenever all workers of
\* a process are at the loop header, and when a worker enters the single
\* region that advances the times; the worker in that region adds one
\* timestep to each, once per step; and whenever a statement of step s + 1
\* is given the times, they are those of step s + 1 and time_dual -
\* time_prim = timestep / 2. This holds on first and on restarted runs.
C24_TimePair ==
    \A p \in Procs :
        /\ pc[p][0] \in {"initAllDiags", "runAllDiags_init", "domain_build",
                         "identify_additional_patches",
                         "identify_missing_patches", "barrier333", "wait333",
                         "fork"} =>
              /\ time_prim[p] = StepPrim(StartStep(p))
              /\ time_dual[p] = StepDual(StartStep(p))
        /\ (\A w \in Threads : At(p, w, "while")) =>
              \A w \in Threads :
                  /\ time_prim[p] = StepPrim(itime[p][w] - 1)
                  /\ time_dual[p] = StepDual(itime[p][w] - 1)
        /\ \A w \in Threads :
              /\ At(p, w, "time_prim") =>
                    /\ time_prim[p] = StepPrim(itime[p][w] - 1)
                    /\ time_dual[p] = StepDual(itime[p][w] - 1)
              /\ At(p, w, "time_dual") =>
                    /\ time_prim[p] = StepPrim(itime[p][w])
                    /\ time_dual[p] = StepDual(itime[p][w] - 1)
              /\ ReadsTimes(p, w) =>
                    /\ time_prim[p] = StepPrim(itime[p][w])
                    /\ time_dual[p] = StepDual(itime[p][w])
                    /\ time_dual[p] - time_prim[p] = timestep \div 2
        /\ (/\ pc[p][0] \in (LoopPcs \cup AfterLoopPcs)
            /\ ~params.test_mode
            /\ \A w \in Threads : pc[p][w] # "time_dual") =>
              /\ time_prim[p] = StepPrim(StartStep(p) + Len(advLog[p]))
              /\ time_dual[p] = StepDual(StartStep(p) + Len(advLog[p]))

C24_Witness ==
    \E p \in Procs :
        /\ run = 2
        /\ params.nthreads = 2
        /\ StartStep(p) = 1
        /\ \A w \in Threads : At(p, w, "while") /\ itime[p][w] = 3
        /\ time_prim[p] = 2 * timestep
        /\ time_dual[p] - time_prim[p] = timestep \div 2

\* C25: the mirror domain is built once, before the loop, whatever
\* global_factor is (the test mode has no loop and builds none); every step whose fields are not frozen uses it; and when
\* the program ends after the loop the domain it built has been released
\* with domain.clean, whatever global_factor is.
C25_MirrorDomainLifecycle ==
    \A p \in Procs :
        /\ (pc[p][0] \in (LoopPcs \cup AfterLoopPcs) /\ ~params.test_mode) =>
              domain[p].built
        /\ Len(SelectSeq(log[p][0], LAMBDA e : e = "domain_build")) <= 1
        /\ \A w \in Threads :
              (pc[p][w] \in ToLoadBalancePcs /\ ~Frozen(itime[p][w])) =>
                  /\ Has(log[p][w], "patchedToCartesian")
                  /\ Has(log[p][w], "solveMaxwell")
                  /\ Has(log[p][w], "cartesianToPatches")
        /\ (pc[p][0] = "return" /\ domain[p].built) => domain[p].cleaned

\* the number of entries of l that main assigned the rank v
Assigned(l, v) ==
    Cardinality({i \in 1 .. Len(l) : l[i].main /\ l[i].rank = v})

\* C26: on the four processes, for every ordered pair of ranks (r, p), as
\* many entries of additional_patches_ranks are assigned the value p on rank
\* r as entries of missing_patches_ranks are assigned the value r on rank p.
C26_RankListsMatch ==
    \A r \in Procs : \A p \in Procs :
        (/\ pc[r][0] \in {"barrier333", "wait333", "fork"}
         /\ pc[p][0] \in {"barrier333", "wait333", "fork"}) =>
            Assigned(domain[r].additional_patches_ranks, p) =
                Assigned(domain[p].missing_patches_ranks, r)

C26_Witness ==
    /\ params.nprocs = 4
    /\ \A r \in Procs : pc[r][0] = "fork"
    /\ Assigned(domain[0].additional_patches_ranks, 3) = 4
    /\ Assigned(domain[2].missing_patches_ranks, 1) = 8
    /\ Assigned(domain[3].additional_patches_ranks, 2) = 8
    /\ Len(domain[2].missing_patches_ranks) = 21

\* the axes whose limits the dispatcher holds, and their names
LimitAxes(P) ==
    {a \in Axes : a < P.nDim_particle /\ ~(a = 2 /\ isRZ(P))}
MinOf(b, a) == b.limits[<<"x_min", "y_min", "z_min">>[a + 1]]
MaxOf(b, a) == b.limits[<<"x_max", "y_max", "z_max">>[a + 1]]
GlobalMax(P, a) ==
    <<x_max_global(P), y_max_global(P), z_max_global(P)>>[a + 1]
Local(P, a) ==
    \/ \A sd \in Sides : P.EM_BCs[a][sd] = "periodic"
    \/ a = 0 /\ P.hasWindow
Clipped(P, a) ==
    /\ \A sd \in Sides : P.EM_BCs[a][sd] # "periodic"
    /\ ~(a = 0 /\ P.hasWindow)

\* C27: for each axis below nDim_particle (z in 3drz excluded) the limits of
\* a dispatcher are the local bounds of its patch when the fields are
\* periodic on that axis (or, for x, the window moves), and the local bounds
\* clipped to [0, cell_length * n_space_global] when they are not; clipped
\* limits of a patch that meets the global domain satisfy
\* 0 <= min <= max <= global maximum.
C27_LocalLimits ==
    \A i \in 1 .. Len(partBoundCond) :
        LET b == partBoundCond[i]
        IN  "limits" \in DOMAIN b =>
            \A a \in LimitAxes(bcParams) :
                LET lo == b.patch.DomainLocalMin[a]
                    hi == b.patch.DomainLocalMax[a]
                    G == GlobalMax(bcParams, a)
                IN  /\ Local(bcParams, a) =>
                        MinOf(b, a) = lo /\ MaxOf(b, a) = hi
                    /\ Clipped(bcParams, a) =>
                        /\ MinOf(b, a) = Max(0, lo)
                        /\ MaxOf(b, a) = Min(G, hi)
                        /\ (lo <= G /\ hi >= 0) =>
                              /\ 0 <= MinOf(b, a)
                              /\ MinOf(b, a) <= MaxOf(b, a)
                              /\ MaxOf(b, a) <= G

C27_Witness ==
    /\ Len(partBoundCond) = 1
    /\ "limits" \in DOMAIN partBoundCond[1]
    /\ bcParams.geometry = "3d3v"
    /\ bcParams.hasWindow
    /\ Clipped(bcParams, 1) /\ Local(bcParams, 2) /\ ~Clipped(bcParams, 0)
    /\ LET b == partBoundCond[1]
       IN  /\ b.patch.DomainLocalMin[0] < 0
           /\ b.limits["x_min"] < 0
           /\ b.patch.DomainLocalMin[1] < 0
           /\ b.limits["y_min"] = 0
           /\ b.patch.DomainLocalMax[1] > 0
           /\ b.patch.DomainLocalMax[2] > GlobalMax(bcParams, 2)
           /\ b.limits["z_max"] = b.patch.DomainLocalMax[2]

\* --------------------------------------------------- exit status, barriers
\* where main is before the patches exist
BeforePatches ==
    {"start", "ifRestart", "test_ifRestart", "readPatchDistribution",
     "test_readPatchDistribution", "createVector", "createVector_restart",
     "test_createVector"}

\* the deck has a boundary condition that a dispatcher rejects
BadBoundaries ==
    \E i \in 1 .. Len(PatchFaces) :
        PartBoundCond(bcParams, species, PatchFaces[i]).error # "none"

\* the exit status of a process that has ended: return 0 (lines 127, 478),
\* or the status of ERROR
ExitStatus(p) == IF pc[p][0] = "ERROR" THEN 1 ELSE 0

\* C22: a process that returns does so with status 0, after the loop reached
\* n_time, after exit_asap stopped it, or after the test mode; a deck whose
\* boundary conditions a dispatcher rejects (unknown policy, fields periodic
\* where the species is not, outer radial policy other than remove) ends in
\* ERROR with a nonzero status when the patches are created, before any
\* time step.
C22_ExitStatus ==
    \A p \in Procs :
        /\ pc[p][0] = "return" =>
              /\ ExitStatus(p) = 0
              /\ ~BadBoundaries
              /\ \/ params.test_mode
                 \/ itime[p][0] > params.n_time
                 \/ checkpoint[p].exit_asap
        /\ pc[p][0] = "ERROR" =>
              /\ ExitStatus(p) # 0
              /\ BadBoundaries
              /\ bcStatus = "ERROR"
              /\ partBoundCond[Len(partBoundCond)].error # "none"
        /\ BadBoundaries =>
              /\ pc[p][0] \in BeforePatches \cup {"ERROR"}
              /\ ~vecPatches[p].created
              /\ time_prim[p] = 0
              /\ advLog[p] = <<>>
              /\ \A w \in Threads : done[p][w] = <<>> /\ log[p][w] = <<>>

C22_Witness ==
    /\ params.nprocs = 2
    /\ \A p \in Procs : pc[p][0] = "ERROR" /\ ExitStatus(p) = 1
    /\ bcParams.geometry = "3drz"
    /\ partBoundCond[Len(partBoundCond)].error = "Rz"

\* where a worker waits for others: in a global barrier of the loop or after
\* it, in a thread barrier, at the end of the parallel region
BlockedPcs ==
    {"wait383", "wait387", "wait390", "wait447", "barrier_time",
     "barrier_dump", "barrier_load_balance", "barrier_print", "join"}
Blocked(p, w) == p \in Procs /\ w \in Threads /\ pc[p][w] \in BlockedPcs

\* main at or past the barrier of line 447
ReachedEnd ==
    {"wait447", "domain_clean", "close", "barrier473", "wait473", "return"}

\* the global barriers a worker has left in its current step
GlobalBarriers(p, w) ==
    Cardinality({i \in 1 .. Len(log[p][w]) : log[p][w][i] = "MPI_Barrier"})

C23_SameBarriers ==
    /\ \A p \in Procs : \A w \in Threads :
          pc[p][w] = "increment" =>
              GlobalBarriers(p, w) = IF Frozen(itime[p][w]) THEN 1 ELSE 3
    /\ (\A p \in Procs : pc[p][0] \in ReachedEnd) =>
          \A p \in Procs : \A q \in Procs :
              \A w \in Threads : \A v \in Threads : done[p][w] = done[q][v]

\* C23: every worker of every process leaves the same number of global
\* barriers in each step (one when the fields are frozen, three otherwise)
\* and runs the same steps; a worker that waits in a global barrier or in a
\* thread barrier is eventually released, and once the parallel region has
\* started all processes reach the barrier after the loop.
C23_DeadlockFree ==
    /\ []C23_SameBarriers
    /\ \A p \in 0 .. (MaxProcs - 1) : \A w \in 0 .. (MaxThreads - 1) :
          Blocked(p, w) ~> ~Blocked(p, w)
    /\ (\E p \in Procs : pc[p][0] = "fork") ~>
          (\A p \in Procs : pc[p][0] \in ReachedEnd)

C23_Witness ==
    /\ params.nprocs = 2
    /\ run = 1
    /\ \A p \in Procs :
          /\ pc[p][0] = "return"
          /\ done[p][0] = <<1, 2>>
          /\ Frozen(1) /\ ~Frozen(2)
          /\ mpiCalls[p] = 7
====
